---- MODULE Spec2Model ----
(***************************************************************************)
(* Model of the ai-safety-monitor core:                                    *)
(*   - PipelineService.process_prompts (monitor/pipeline/pipeline_service) *)
(*   - ModerationRepository (monitor/storage/repository)                   *)
(*                                                                         *)
(* Spec     : one call of process_prompts, one step per capability call.   *)
(* SpecRepo : calls of the repository on one database; each call is one    *)
(*            step (one session, committed or rolled back as a whole).     *)
(*                                                                         *)
(* A Prompt is modelled by its text (metadata is carried along unchanged   *)
(* by the code and not looked at), a timestamp by a reading of `clock`.    *)
(*                                                                         *)
(* Conventions.  An Optional[T] value is a sequence of length 0 (None) or  *)
(* 1 (the value).  A JSON scalar of a provider payload is a token          *)
(* ("true", "false", "null", a text); bool() is modelled by PyBool.  A     *)
(* dict whose iteration order matters is a sequence of <<key, value>>      *)
(* pairs.  Scores are floats in tenths (9 means 0.9).                      *)
(***************************************************************************)
EXTENDS Integers, Sequences, FiniteSets, TLC

\* ---------------------------------------------------------------- bounds
MaxPrompts == 2      \* prompts of one process_prompts call
MaxRuns == 1         \* stored runs in the repository specification
MaxStored == 2       \* result records in the table, uncommitted ones included
MaxBatch == 2        \* results of one save_results call
MaxLifeRuns == 2     \* stored runs in the callers' specification
MaxClock == 1        \* latest reading of the clock in the callers' specification
MaxSessionPrompts == 2  \* prompts entered in the interactive session
MaxWriters == 2  \* save_results calls in progress at once
MaxCliPrompts == 2  \* prompts of one invocation of a batch CLI
MaxEmitDepth == 3  \* nested emit calls the interpreter's stack has room for
MaxLogRows == 3  \* rows of moderation_logs
MaxConcBatch == 2  \* results of one concurrent save_results call

\* ---------------------------------------------------------------- helpers
None == <<>>
Some(v) == <<v>>
IsNone(o) == o = <<>>
IsSome(o) == o # <<>>
Get(o) == o[1]

\* ------------------------------------------------- provider payload values
\* First element of a classifier payload's "results" list.
\* categories / category_scores are Optional ordered maps.
Element(fl, cats, scores) == [flagged |-> fl, categories |-> cats, category_scores |-> scores]

\* A classifier payload: "results" key absent (None), or a list of elements.
Payload(res) == [results |-> res]

ElemClean == Element(Some("false"), Some(<<>>), Some(<<>>))
ElemToxic == Element(Some("true"), Some(<< <<"toxicity", "true">> >>), Some(<< <<"toxicity", 9>> >>))
\* flagged=false although a category is violated; one score is missing
ElemCatOnly == Element(Some("false"),
                       Some(<< <<"toxicity", "true">>, <<"safety", "false">> >>),
                       Some(<< <<"toxicity", 5>> >>))
\* flagged=true with no violated category
\* (and one score whose key is no category)
ElemFlagNoCat == Element(Some("true"), Some(<< <<"safety", "false">> >>),
                         Some(<< <<"hate", 7>>, <<"safety", 0>> >>))
\* an element lacking every key
ElemEmpty == Element(None, None, None)

Payloads ==
    { Payload(Some(<<ElemClean>>)),
      Payload(Some(<<ElemToxic>>)),
      Payload(Some(<<ElemCatOnly>>)),
      Payload(Some(<<ElemFlagNoCat>>)),
      Payload(Some(<<ElemEmpty>>)),
      Payload(Some(<<>>)),
      Payload(None) }

\* payloads the output classifier returns in the pipeline specification
OutputPayloads ==
    { Payload(Some(<<ElemClean>>)),
      Payload(Some(<<ElemToxic>>)),
      Payload(Some(<<ElemCatOnly>>)) }

\* An answer generator payload: optional "text" and "model" keys.
AnswerPayloads ==
    { [text |-> Some("I'm fine."), model |-> Some("m1")],
      [text |-> Some(""), model |-> Some("m1")],
      [text |-> None, model |-> None] }

PromptTexts == {"hello", "attack"}

\* ------------------------------------------------------- Python semantics
\* bool(x) of a JSON scalar
PyBool(tok) == tok = "true"

\* truthiness of an Optional pydantic object: None is falsy, any model
\* instance is truthy (BaseModel defines neither __bool__ nor __len__)
ObjTruthy(o) == IsSome(o)

\* dict.get(key, default) on an ordered map given as a sequence of pairs
RECURSIVE DictGet(_, _, _)
DictGet(d, key, default) ==
    IF d = <<>> THEN default
    ELSE IF d[1][1] = key THEN d[1][2]
    ELSE DictGet(Tail(d), key, default)

\* ------------------------------------------------------------ schema.py
ModerationFlag(category, score, violated) ==
    [category |-> category, score |-> score, violated |-> violated]

ClassificationResult(flagged, flags, raw_response) ==
    [flagged |-> flagged, flags |-> flags, raw_response |-> raw_response]

AnswerGeneration(text, model, raw_response) ==
    [text |-> text, model |-> model, raw_response |-> raw_response]

PipelineResult(prompt, input_cls, ans, output_cls) ==
    [kind |-> "PipelineResult", prompt |-> prompt, input_classification |-> input_cls,
     answer |-> ans, output_classification |-> output_cls]

\* --------------------------------- PipelineService._build_classification_result
\* (raw_response.get("results") or [{}])[0]
FirstElement(raw_response) ==
    IF IsNone(raw_response.results) \/ Get(raw_response.results) = <<>>
    THEN ElemEmpty
    ELSE Get(raw_response.results)[1]

\* x.get(key, {}) or {}
MapOrEmpty(o) == IF IsNone(o) THEN <<>> ELSE Get(o)

\* mutant: the flags are built from the keys of category_scores
BuildFlags_FromScores(categories, category_scores) ==
    [k \in 1..Len(category_scores) |->
        ModerationFlag(category_scores[k][1],
                       category_scores[k][2],
                       PyBool(DictGet(categories, category_scores[k][1], "false")))]

\* [ModerationFlag(...) for category, is_flagged in categories.items()]
BuildFlags(categories, category_scores) ==
    [k \in 1..Len(categories) |->
        ModerationFlag(categories[k][1],
                       DictGet(category_scores, categories[k][1], 0),
                       PyBool(categories[k][2]))]

\* mutant: flagged is recomputed from the flags
_build_classification_result_FlaggedFromFlags(raw_response) ==
    LET result_payload == FirstElement(raw_response)
        categories == MapOrEmpty(result_payload.categories)
        category_scores == MapOrEmpty(result_payload.category_scores)
        flags == BuildFlags(categories, category_scores)
    IN ClassificationResult(\E k \in DOMAIN flags : flags[k].violated, flags, raw_response)

\* mutant: a payload without flagged key counts as flagged
_build_classification_result_DefaultFlagged(raw_response) ==
    LET result_payload == FirstElement(raw_response)
        categories == MapOrEmpty(result_payload.categories)
        category_scores == MapOrEmpty(result_payload.category_scores)
    IN ClassificationResult(
           PyBool(IF IsNone(result_payload.flagged) THEN "true" ELSE Get(result_payload.flagged)),
           BuildFlags(categories, category_scores),
           raw_response)

_build_classification_result(raw_response) ==
    LET result_payload == FirstElement(raw_response)
        categories == MapOrEmpty(result_payload.categories)
        category_scores == MapOrEmpty(result_payload.category_scores)
    IN ClassificationResult(
           PyBool(IF IsNone(result_payload.flagged) THEN "false" ELSE Get(result_payload.flagged)),
           BuildFlags(categories, category_scores),
           raw_response)

\* AnswerGeneration(text=answer_raw.get("text", ""), model=answer_raw.get("model", "unknown"), ...)
BuildAnswer(answer_raw) ==
    AnswerGeneration(IF IsNone(answer_raw.text) THEN "" ELSE Get(answer_raw.text),
                     IF IsNone(answer_raw.model) THEN "unknown" ELSE Get(answer_raw.model),
                     answer_raw)

\* ------------------------------------------------------------------ state
VARIABLES
    answer_generator,       \* TRUE iff PipelineService._answer_generator is configured
    output_classifier,      \* TRUE iff PipelineService._output_classifier is configured
    prompts,                \* the argument of process_prompts
    pc,                     \* position inside process_prompts
    idx,                    \* index of the prompt of the current loop iteration
    results,                \* the local list `results`
    input_classification,   \* locals of the current iteration (Optional)
    answer,
    output_classification,
    calls,                  \* capability invocations made so far, in order
    returned                \* Optional: the list returned to the caller

pvars == <<answer_generator, output_classifier, prompts, pc, idx, results,
           input_classification, answer, output_classification, calls, returned>>

VARIABLES
    runs,                   \* table moderation_runs, in insertion order
    result_rows,            \* table moderation_results (committed rows)
    flag_rows,              \* table moderation_flags (committed rows)
    fk_enforced,            \* TRUE iff the database backend enforces foreign keys
    clock,                  \* latest reading of datetime.utcnow() / now()
    last                    \* the most recent repository call and its outcome

rvars == <<runs, result_rows, flag_rows, fk_enforced, clock, last>>

VARIABLES
    session,                \* the interactive session: position in main, its
                            \* run id, prompt_count, the result being saved
    request                 \* the dashboard's latest review request: the form
                            \* fields as submitted and the response status

VARIABLES
    writers,                \* the save_results calls in progress, each in a
                            \* session of its own: position, arguments and
                            \* the rows its transaction has not committed
    reader,                 \* a fetch_run_details / list_runs call in
                            \* progress: position and the rows it has loaded
    cli,                    \* an invocation of a batch CLI: position in main,
                            \* its run, its results, the invocations ended
    log_rows,               \* the table moderation_logs
    handling                \* the handling of one log record by the
                            \* DatabaseLogHandler: position, nesting of emit

tvars == <<writers, reader, cli, log_rows, handling>>

cvars == <<session, request, tvars>>

vars == <<pvars, rvars, cvars>>

Call(cap, k, text, outcome) == [cap |-> cap, prompt |-> k, text |-> text, outcome |-> outcome]

\* op: the operation called (a repository method; in the callers'
\* specification also process_prompts and the session's update of
\* prompt_limit); raised: it raised; found: the row it looks up
\* exists; ret: its return value; run_id, batch: the arguments of a
\* save_results call that committed; flushed: records flushed by save_results;
\* id: the id argument of complete_run / record_human_review
NoCall == [op |-> "none", raised |-> FALSE, found |-> FALSE, ret |-> None,
           run_id |-> 0, batch |-> <<>>, flushed |-> 0, id |-> 0]

\* the state of a database after create_schema: no rows
EmptyDatabase ==
    /\ runs = <<>>
    /\ result_rows = <<>>
    /\ flag_rows = <<>>
    /\ clock = 0
    /\ last = NoCall

\* the interactive session before it has started its run
NoSession == [pc |-> "start", run_id |-> 0, prompt_count |-> 0, pending |-> None]

\* no review request was handled yet
\* prior_notes: the notes the record held when the request arrived
NoRequest == [result_id |-> 0, label |-> <<>>, notes |-> None, status |-> 0,
              prior_notes |-> None]

Writers == 1..MaxWriters

\* a save_results call that has not been made
\* pc: "idle", "record" (about to add and flush result k), "flags" (about to
\* add the flags of result k), "done" (committed), "failed" (rolled back);
\* ids: the ids its flushes were given, in order; rows, flags: the rows its
\* transaction has written and not committed
NoWriter == [pc |-> "idle", run_id |-> 0, batch |-> <<>>, k |-> 1, ids |-> <<>>,
             rows |-> <<>>, flags |-> <<>>]

NoWriters == [w \in Writers |-> NoWriter]

\* a read that has not been made
\* pc: "idle", "results" (runs loaded), "flags" (results loaded), "done";
\* run_ids: ids of the runs its first SELECT returned
NoReader == [pc |-> "idle", op |-> "none", run_ids |-> {}, results |-> <<>>,
             flags |-> <<>>]

\* a batch CLI that has not been invoked
\* pc: "start", "process" (run started or no database), "save", "complete",
\* "done" (main returned), "crashed" (main ended by an exception);
\* ended: run id and number of prompts processed of the invocations over
NoCli == [pc |-> "start", program |-> "none", database |-> FALSE, run_id |-> 0,
          pending |-> None, ended |-> <<>>]

\* no log record is being handled
\* pc: "idle", "emit" (in the try block of emit), "return" (emit is
\* returning), "raised" (an exception reached the code that logged);
\* depth: the emit calls on the stack; level, message: the record in emit
NoHandling == [pc |-> "idle", depth |-> 0, level |-> "", message |-> ""]

\* ------------------------------------------------------------------- Init
Init ==
    /\ answer_generator \in BOOLEAN
    /\ output_classifier \in BOOLEAN
    /\ prompts \in UNION { [1..n -> PromptTexts] : n \in 0..MaxPrompts }
    /\ pc = "loop"
    /\ idx = 1
    /\ results = <<>>
    /\ input_classification = None
    /\ answer = None
    /\ output_classification = None
    /\ calls = <<>>
    /\ returned = None
    /\ EmptyDatabase
    /\ fk_enforced = FALSE
    /\ session = NoSession
    /\ request = NoRequest
    /\ writers = NoWriters
    /\ reader = NoReader
    /\ cli = NoCli
    /\ log_rows = <<>>
    /\ handling = NoHandling

\* ------------------------------------------- PipelineService.process_prompts
\* `for prompt in prompts` with prompts exhausted: `return results`
Return ==
    /\ pc = "loop"
    /\ idx > Len(prompts)
    /\ pc' = "returned"
    /\ returned' = Some(results)
    /\ UNCHANGED <<answer_generator, output_classifier, prompts, idx, results,
                   input_classification, answer, output_classification, calls>>
    /\ UNCHANGED <<rvars, cvars>>

\* Stage 1: classify_input(prompt.text) returns a payload
ClassifyInput ==
    /\ pc = "loop"
    /\ idx <= Len(prompts)
    /\ \E raw \in Payloads :
        /\ input_classification' = Some(_build_classification_result(raw))
        /\ calls' = Append(calls, Call("classify_input", idx, prompts[idx], "returned"))
    /\ answer' = None
    /\ output_classification' = None
    /\ pc' = "stage2"
    /\ UNCHANGED <<answer_generator, output_classifier, prompts, idx, results, returned>>
    /\ UNCHANGED <<rvars, cvars>>

\* mutant: the error is swallowed and the prompt silently skipped
Raise_Swallowed(cap, text) ==
    /\ calls' = Append(calls, Call(cap, idx, text, "raised"))
    /\ pc' = "loop"
    /\ idx' = idx + 1
    /\ UNCHANGED <<answer_generator, output_classifier, prompts, results,
                   input_classification, answer, output_classification, returned>>
    /\ UNCHANGED <<rvars, cvars>>

\* a capability raises: the exception leaves process_prompts, the locals are lost
Raise(cap, text) ==
    /\ calls' = Append(calls, Call(cap, idx, text, "raised"))
    /\ pc' = "raised"
    /\ UNCHANGED <<answer_generator, output_classifier, prompts, idx, results,
                   input_classification, answer, output_classification, returned>>
    /\ UNCHANGED <<rvars, cvars>>

ClassifyInputRaises ==
    /\ pc = "loop"
    /\ idx <= Len(prompts)
    /\ Raise("classify_input", prompts[idx])

\* mutant: the gate ignores the input verdict
AnswerGate_IgnoresVerdict == answer_generator

\* mutant: the gate ignores whether a generator is configured
AnswerGate_IgnoresConfig == ~Get(input_classification).flagged

\* mutant: once a prompt of the batch was flagged no later prompt is answered
AnswerGate_AfterFlaggedPrompt ==
    /\ answer_generator
    /\ ~Get(input_classification).flagged
    /\ \A k \in DOMAIN results : ~results[k].input_classification.flagged

\* the gate of stage 2: `if self._answer_generator and not input_classification.flagged`
AnswerGate == answer_generator /\ ~Get(input_classification).flagged

GenerateAnswer ==
    /\ pc = "stage2"
    /\ AnswerGate
    /\ \E answer_raw \in AnswerPayloads :
        /\ answer' = Some(BuildAnswer(answer_raw))
        /\ calls' = Append(calls, Call("generate_answer", idx, prompts[idx], "returned"))
    /\ pc' = "stage3"
    /\ UNCHANGED <<answer_generator, output_classifier, prompts, idx, results,
                   input_classification, output_classification, returned>>
    /\ UNCHANGED <<rvars, cvars>>

GenerateAnswerRaises ==
    /\ pc = "stage2"
    /\ AnswerGate
    /\ Raise("generate_answer", prompts[idx])

SkipAnswer ==
    /\ pc = "stage2"
    /\ ~AnswerGate
    /\ pc' = "stage3"
    /\ UNCHANGED <<answer_generator, output_classifier, prompts, idx, results,
                   input_classification, answer, output_classification, calls, returned>>
    /\ UNCHANGED <<rvars, cvars>>

\* mutant: an answer with empty text counts as no answer
OutputGate_TextTruthiness == output_classifier /\ IsSome(answer) /\ Get(answer).text # ""

\* the gate of stage 3: `if self._output_classifier and answer`
OutputGate == output_classifier /\ ObjTruthy(answer)

\* mutant: the output classifier is given the prompt, not the answer
ClassifyOutput_OnPromptText ==
    /\ pc = "stage3"
    /\ OutputGate
    /\ \E raw \in OutputPayloads :
        /\ output_classification' = Some(_build_classification_result(raw))
        /\ calls' = Append(calls, Call("classify_output", idx, prompts[idx], "returned"))
    /\ pc' = "append"
    /\ UNCHANGED <<answer_generator, output_classifier, prompts, idx, results,
                   input_classification, answer, returned>>
    /\ UNCHANGED <<rvars, cvars>>

ClassifyOutput ==
    /\ pc = "stage3"
    /\ OutputGate
    /\ \E raw \in OutputPayloads :
        /\ output_classification' = Some(_build_classification_result(raw))
        /\ calls' = Append(calls, Call("classify_output", idx, Get(answer).text, "returned"))
    /\ pc' = "append"
    /\ UNCHANGED <<answer_generator, output_classifier, prompts, idx, results,
                   input_classification, answer, returned>>
    /\ UNCHANGED <<rvars, cvars>>

ClassifyOutputRaises ==
    /\ pc = "stage3"
    /\ OutputGate
    /\ Raise("classify_output", Get(answer).text)

SkipOutput ==
    /\ pc = "stage3"
    /\ ~OutputGate
    /\ pc' = "append"
    /\ UNCHANGED <<answer_generator, output_classifier, prompts, idx, results,
                   input_classification, answer, output_classification, calls, returned>>
    /\ UNCHANGED <<rvars, cvars>>

\* mutant: the result is inserted at the front of the list
AppendResult_Prepends ==
    /\ pc = "append"
    /\ results' = <<PipelineResult(prompts[idx], Get(input_classification),
                                   answer, output_classification)>> \o results
    /\ idx' = idx + 1
    /\ pc' = "loop"
    /\ input_classification' = None
    /\ answer' = None
    /\ output_classification' = None
    /\ UNCHANGED <<answer_generator, output_classifier, prompts, calls, returned>>
    /\ UNCHANGED <<rvars, cvars>>

\* results.append(PipelineResult(...)); next loop iteration
AppendResult ==
    /\ pc = "append"
    /\ results' = Append(results,
                         PipelineResult(prompts[idx], Get(input_classification),
                                        answer, output_classification))
    /\ idx' = idx + 1
    /\ pc' = "loop"
    /\ input_classification' = None
    /\ answer' = None
    /\ output_classification' = None
    /\ UNCHANGED <<answer_generator, output_classifier, prompts, calls, returned>>
    /\ UNCHANGED <<rvars, cvars>>

Next ==
    \/ ClassifyInput
    \/ ClassifyInputRaises
    \/ GenerateAnswer
    \/ GenerateAnswerRaises
    \/ SkipAnswer
    \/ ClassifyOutput
    \/ ClassifyOutputRaises
    \/ SkipOutput
    \/ AppendResult
    \/ Return

Spec == Init /\ [][Next]_vars

\* ========================================================= the repository
\* ------------------------------------------------------ values to be saved
\* legacy schema.ModerationResult
ModerationResult(prompt, flagged, flags, raw_response) ==
    [kind |-> "ModerationResult", prompt |-> prompt, flagged |-> flagged,
     flags |-> flags, raw_response |-> raw_response]

\* the read-only properties flagged, flags and raw_response of PipelineResult
LegacyProperties(pipeline_result) ==
    [flagged |-> pipeline_result.input_classification.flagged,
     flags |-> pipeline_result.input_classification.flags,
     raw_response |-> pipeline_result.input_classification.raw_response]

\* mutant: the legacy verdict is true when either stage is flagged
from_pipeline_result_AnyStageFlagged(pipeline_result) ==
    ModerationResult(pipeline_result.prompt,
                     pipeline_result.input_classification.flagged
                        \/ (IsSome(pipeline_result.output_classification)
                            /\ Get(pipeline_result.output_classification).flagged),
                     pipeline_result.input_classification.flags,
                     pipeline_result.input_classification.raw_response)

\* ModerationResult.from_pipeline_result
from_pipeline_result(pipeline_result) ==
    ModerationResult(pipeline_result.prompt,
                     pipeline_result.input_classification.flagged,
                     pipeline_result.input_classification.flags,
                     pipeline_result.input_classification.raw_response)

\* ------------------------------------------------------- ModerationService
\* the methods a provider object may have
Providers == {"classify_input", "moderate_text", "neither"}

\* the list comprehension of _build_pipeline_result: one flag per item of
\* categories
LegacyFlags(categories, category_scores) ==
    [k \in 1..Len(categories) |->
        ModerationFlag(categories[k][1],
                       DictGet(category_scores, categories[k][1], 0),
                       PyBool(categories[k][2]))]

\* mutant: flagged is true when some category is violated
_build_pipeline_result_FlaggedFromFlags(prompt, raw_response) ==
    LET result_payload ==
            IF IsNone(raw_response.results) \/ Get(raw_response.results) = <<>>
            THEN ElemEmpty
            ELSE Get(raw_response.results)[1]
        categories == IF IsNone(result_payload.categories) THEN <<>>
                      ELSE Get(result_payload.categories)
        category_scores == IF IsNone(result_payload.category_scores) THEN <<>>
                           ELSE Get(result_payload.category_scores)
        flags == LegacyFlags(categories, category_scores)
    IN PipelineResult(prompt,
                      ClassificationResult(\E k \in DOMAIN flags : flags[k].violated,
                                           flags, raw_response),
                      None, None)

\* ModerationService._build_pipeline_result
_build_pipeline_result(prompt, raw_response) ==
    LET result_payload ==
            IF IsNone(raw_response.results) \/ Get(raw_response.results) = <<>>
            THEN ElemEmpty
            ELSE Get(raw_response.results)[1]
        categories == IF IsNone(result_payload.categories) THEN <<>>
                      ELSE Get(result_payload.categories)
        category_scores == IF IsNone(result_payload.category_scores) THEN <<>>
                           ELSE Get(result_payload.category_scores)
        flags == LegacyFlags(categories, category_scores)
    IN PipelineResult(prompt,
                      ClassificationResult(
                          PyBool(IF IsNone(result_payload.flagged) THEN "false"
                                 ELSE Get(result_payload.flagged)),
                          flags, raw_response),
                      None, None)

\* ModerationService.moderate_prompts: responses[k] is what the provider
\* returns for prompt k.  A provider with neither method makes the first
\* iteration raise ValueError.
RECURSIVE moderate_prompts(_, _, _)
moderate_prompts(provider, ps, responses) ==
    IF ps = <<>> THEN [raised |-> FALSE, results |-> <<>>]
    ELSE IF provider = "neither" THEN [raised |-> TRUE, results |-> <<>>]
    ELSE LET pipeline_result == _build_pipeline_result(ps[1], responses[1])
             moderation_result ==
                 ModerationResult(pipeline_result.prompt,
                                  pipeline_result.input_classification.flagged,
                                  pipeline_result.input_classification.flags,
                                  pipeline_result.input_classification.raw_response)
             rest == moderate_prompts(provider, Tail(ps), Tail(responses))
         IN [raised |-> rest.raised, results |-> <<moderation_result>> \o rest.results]

ClsClean == _build_classification_result(Payload(Some(<<ElemClean>>)))
ClsToxic == _build_classification_result(Payload(Some(<<ElemToxic>>)))
ClsCatOnly == _build_classification_result(Payload(Some(<<ElemCatOnly>>)))
ClsFlagNoCat == _build_classification_result(Payload(Some(<<ElemFlagNoCat>>)))

AnsFine == BuildAnswer([text |-> Some("I'm fine."), model |-> Some("m1")])
AnsEmpty == BuildAnswer([text |-> Some(""), model |-> Some("m1")])

\* a value that is not a PipelineResult instance but has its attributes
StructuralValue(prompt, input_cls, ans, output_cls) ==
    [kind |-> "Other", prompt |-> prompt, input_classification |-> input_cls,
     answer |-> ans, output_classification |-> output_cls]

\* the results handed to save_results: every pattern of present / absent
\* answer and output stage, a legacy result, and a value that only has the
\* attributes of a PipelineResult
SaveValues ==
    { PipelineResult("attack", ClsToxic, None, None),
      PipelineResult("hello", ClsClean, Some(AnsFine), None),
      PipelineResult("hello", ClsCatOnly, Some(AnsEmpty), Some(ClsToxic)),
      PipelineResult("attack", ClsFlagNoCat, None, Some(ClsClean)),
      from_pipeline_result(PipelineResult("attack", ClsToxic, None, None)),
      from_pipeline_result(PipelineResult("hello", ClsCatOnly, Some(AnsEmpty), Some(ClsToxic))),
      StructuralValue("hello", ClsCatOnly, Some(AnsEmpty), Some(ClsToxic)) }

Batches == UNION { [1..n -> SaveValues] : n \in 0..MaxBatch }

RunArgs ==
    { [dataset_id |-> "custom_cli", dataset_split |-> "custom", model |-> "m1",
       prompt_limit |-> 2, output_path |-> Some("out.jsonl"), extra_args |-> "args"] }

CompleteStatuses == {"completed", "failed"}

\* label and notes are strings of characters
ReviewLabels == { <<"S", "A", "F", "E">> }
ReviewNotes == { None, Some(<<>>), Some(<<"o", "k">>) }

\* ------------------------------------------------------------------ tables
RECURSIVE MaxId(_)
MaxId(rows) ==
    IF rows = <<>> THEN 0
    ELSE LET m == MaxId(Tail(rows)) IN IF rows[1].id > m THEN rows[1].id ELSE m

\* the integer primary key the database assigns on INSERT
NextId(rows) == MaxId(rows) + 1

Ids(rows) == { rows[k].id : k \in DOMAIN rows }

\* session.get(Model, id): the row's position, 0 when there is none
RECURSIVE Find(_, _)
Find(rows, id) ==
    IF rows = <<>> THEN 0
    ELSE IF rows[Len(rows)].id = id THEN Len(rows)
    ELSE Find(SubSeq(rows, 1, Len(rows) - 1), id)

RECURSIVE SelectSeq2(_, _, _)
\* the rows of a sequence whose field has the given value, in order
SelectSeq2(rows, field, value) ==
    IF rows = <<>> THEN <<>>
    ELSE (IF rows[1][field] = value THEN <<rows[1]>> ELSE <<>>)
         \o SelectSeq2(Tail(rows), field, value)

\* ------------------------------------------------ ModerationRepository.session
Txn(rr, fr) == [results |-> rr, flags |-> fr]

\* mutant: the rows flushed before the error stay stored
SessionExit_NoRollback(committed, working, raised) == working

\* commit when the block ends normally, rollback when it raises
SessionExit(committed, working, raised) ==
    IF raised THEN committed ELSE working

\* ---------------------------------------- ModerationRepository.save_results
\* mutant: the legacy columns are taken from the output stage when it ran
PipelineRecord_LegacyFromOutput(run_id, result) ==
    LET src == IF ObjTruthy(result.output_classification)
               THEN Get(result.output_classification) ELSE result.input_classification
    IN [run_id |-> run_id,
        prompt_text |-> result.prompt,
        input_flagged |-> result.input_classification.flagged,
        input_raw_response |-> result.input_classification.raw_response,
        answer_text |-> IF ObjTruthy(result.answer) THEN Some(Get(result.answer).text) ELSE None,
        answer_model |-> IF ObjTruthy(result.answer) THEN Some(Get(result.answer).model) ELSE None,
        answer_raw_response |->
            IF ObjTruthy(result.answer) THEN Some(Get(result.answer).raw_response) ELSE None,
        output_flagged |->
            IF ObjTruthy(result.output_classification)
            THEN Some(Get(result.output_classification).flagged) ELSE None,
        output_raw_response |->
            IF ObjTruthy(result.output_classification)
            THEN Some(Get(result.output_classification).raw_response) ELSE None,
        human_label |-> None, human_label_type |-> None,
        human_notes |-> None, human_reviewed_at |-> None,
        flagged |-> src.flagged,
        raw_response |-> src.raw_response]

\* ModerationResultRecord(...) built from a value with input_classification
PipelineRecord(run_id, result) ==
    [run_id |-> run_id,
     prompt_text |-> result.prompt,
     input_flagged |-> result.input_classification.flagged,
     input_raw_response |-> result.input_classification.raw_response,
     answer_text |-> IF ObjTruthy(result.answer) THEN Some(Get(result.answer).text) ELSE None,
     answer_model |-> IF ObjTruthy(result.answer) THEN Some(Get(result.answer).model) ELSE None,
     answer_raw_response |->
         IF ObjTruthy(result.answer) THEN Some(Get(result.answer).raw_response) ELSE None,
     output_flagged |->
         IF ObjTruthy(result.output_classification)
         THEN Some(Get(result.output_classification).flagged) ELSE None,
     output_raw_response |->
         IF ObjTruthy(result.output_classification)
         THEN Some(Get(result.output_classification).raw_response) ELSE None,
     human_label |-> None, human_label_type |-> None,
     human_notes |-> None, human_reviewed_at |-> None,
     flagged |-> result.input_classification.flagged,
     raw_response |-> result.input_classification.raw_response]

\* mutant: the second copy of the record construction drifted and lost the
\* output stage
StructuralRecord_DropsOutputStage(run_id, result) ==
    [run_id |-> run_id,
     prompt_text |-> result.prompt,
     input_flagged |-> result.input_classification.flagged,
     input_raw_response |-> result.input_classification.raw_response,
     answer_text |-> IF ObjTruthy(result.answer) THEN Some(Get(result.answer).text) ELSE None,
     answer_model |-> IF ObjTruthy(result.answer) THEN Some(Get(result.answer).model) ELSE None,
     answer_raw_response |->
         IF ObjTruthy(result.answer) THEN Some(Get(result.answer).raw_response) ELSE None,
     output_flagged |-> None,
     output_raw_response |-> None,
     human_label |-> None, human_label_type |-> None,
     human_notes |-> None, human_reviewed_at |-> None,
     flagged |-> result.input_classification.flagged,
     raw_response |-> result.input_classification.raw_response]

\* ModerationResultRecord(...) of the branch taken by a value that is not a
\* PipelineResult instance but has the attribute input_classification
StructuralRecord(run_id, result) ==
    [run_id |-> run_id,
     prompt_text |-> result.prompt,
     input_flagged |-> result.input_classification.flagged,
     input_raw_response |-> result.input_classification.raw_response,
     answer_text |-> IF ObjTruthy(result.answer) THEN Some(Get(result.answer).text) ELSE None,
     answer_model |-> IF ObjTruthy(result.answer) THEN Some(Get(result.answer).model) ELSE None,
     answer_raw_response |->
         IF ObjTruthy(result.answer) THEN Some(Get(result.answer).raw_response) ELSE None,
     output_flagged |->
         IF ObjTruthy(result.output_classification)
         THEN Some(Get(result.output_classification).flagged) ELSE None,
     output_raw_response |->
         IF ObjTruthy(result.output_classification)
         THEN Some(Get(result.output_classification).raw_response) ELSE None,
     human_label |-> None, human_label_type |-> None,
     human_notes |-> None, human_reviewed_at |-> None,
     flagged |-> result.input_classification.flagged,
     raw_response |-> result.input_classification.raw_response]

\* mutant: the legacy branch fills the output verdict from the result
LegacyRecord_FillsOutput(run_id, result) ==
    [run_id |-> run_id,
     prompt_text |-> result.prompt,
     input_flagged |-> result.flagged,
     input_raw_response |-> result.raw_response,
     answer_text |-> None, answer_model |-> None, answer_raw_response |-> None,
     output_flagged |-> Some(result.flagged), output_raw_response |-> None,
     human_label |-> None, human_label_type |-> None,
     human_notes |-> None, human_reviewed_at |-> None,
     flagged |-> result.flagged,
     raw_response |-> result.raw_response]

\* ModerationResultRecord(...) built from a true legacy ModerationResult
LegacyRecord(run_id, result) ==
    [run_id |-> run_id,
     prompt_text |-> result.prompt,
     input_flagged |-> result.flagged,
     input_raw_response |-> result.raw_response,
     answer_text |-> None, answer_model |-> None, answer_raw_response |-> None,
     output_flagged |-> None, output_raw_response |-> None,
     human_label |-> None, human_label_type |-> None,
     human_notes |-> None, human_reviewed_at |-> None,
     flagged |-> result.flagged,
     raw_response |-> result.raw_response]

\* isinstance(result, PipelineResult) or hasattr(result, 'input_classification')
IsPipelineShaped(result) ==
    result.kind = "PipelineResult" \/ "input_classification" \in DOMAIN result

\* the record of one element: isinstance branch, hasattr branch, else branch
RecordFor(run_id, result) ==
    IF result.kind = "PipelineResult" THEN PipelineRecord(run_id, result)
    ELSE IF "input_classification" \in DOMAIN result THEN StructuralRecord(run_id, result)
    ELSE LegacyRecord(run_id, result)

\* session.add(record); session.flush(): the row gets its primary key
Flush(rows, record) == Append(rows, [id |-> NextId(rows)] @@ record)

\* mutant: every flag is tagged as an input flag
FlagRecords_AlwaysInput(rows, result_id, flags, flag_type) ==
    rows \o [k \in 1..Len(flags) |->
                [id |-> NextId(rows) + k - 1, result_id |-> result_id,
                 category |-> flags[k].category, score |-> flags[k].score,
                 violated |-> flags[k].violated, flag_type |-> "input"]]

\* mutant: the tag of the output stage is misspelled
FlagRecords_MisspelledOutput(rows, result_id, flags, flag_type) ==
    rows \o [k \in 1..Len(flags) |->
                [id |-> NextId(rows) + k - 1, result_id |-> result_id,
                 category |-> flags[k].category, score |-> flags[k].score,
                 violated |-> flags[k].violated,
                 flag_type |-> IF flag_type = "output" THEN "ouput" ELSE flag_type]]

\* session.add(ModerationFlagRecord(...)) for every flag of one stage
FlagRecords(rows, result_id, flags, flag_type) ==
    rows \o [k \in 1..Len(flags) |->
                [id |-> NextId(rows) + k - 1, result_id |-> result_id,
                 category |-> flags[k].category, score |-> flags[k].score,
                 violated |-> flags[k].violated, flag_type |-> flag_type]]

\* the flag rows of both stages, as the isinstance branch writes them
StageFlagRecords(rows, result_id, result) ==
    LET withInput == FlagRecords(rows, result_id, result.input_classification.flags, "input")
    IN IF ObjTruthy(result.output_classification)
       THEN FlagRecords(withInput, result_id,
                        Get(result.output_classification).flags, "output")
       ELSE withInput

\* the flag rows one result adds
AddFlags(rows, result_id, result) ==
    IF result.kind = "PipelineResult" THEN StageFlagRecords(rows, result_id, result)
    ELSE IF "input_classification" \in DOMAIN result
    THEN LET withInput == FlagRecords(rows, result_id, result.input_classification.flags, "input")
         IN IF ObjTruthy(result.output_classification)
            THEN FlagRecords(withInput, result_id,
                             Get(result.output_classification).flags, "output")
            ELSE withInput
    ELSE FlagRecords(rows, result_id, result.flags, "input")

\* the body of `for result in results` from element k on.  failAt = k: an
\* error is raised while element k is written, after its record was flushed.
\* With foreign keys enforced the flush of a record of an unknown run raises.
RECURSIVE SaveLoop(_, _, _, _, _)
SaveLoop(txn, run_id, batch, k, failAt) ==
    IF k > Len(batch) THEN [txn |-> txn, raised |-> FALSE, flushed |-> k - 1]
    ELSE IF fk_enforced /\ run_id \notin Ids(runs)
    THEN [txn |-> txn, raised |-> TRUE, flushed |-> k - 1]
    ELSE LET result == batch[k]
             record == RecordFor(run_id, result)
             rr == Flush(txn.results, record)
         IN IF failAt = k
            THEN [txn |-> Txn(rr, txn.flags), raised |-> TRUE, flushed |-> k]
            ELSE SaveLoop(Txn(rr, AddFlags(txn.flags, rr[Len(rr)].id, result)),
                          run_id, batch, k + 1, failAt)

\* save_results(run_id, results); failAt = Len(batch) + 1: the commit raises
SaveResults(run_id, batch, failAt) ==
    /\ Len(result_rows) + Len(batch) <= MaxStored
    /\ \E out \in {SaveLoop(Txn(result_rows, flag_rows), run_id, batch, 1, failAt)} :
      LET raised == out.raised \/ failAt = Len(batch) + 1 IN
        \E final \in {SessionExit(Txn(result_rows, flag_rows), out.txn, raised)} :
           /\ result_rows' = final.results
           /\ flag_rows' = final.flags
           /\ last' = [NoCall EXCEPT !.op = "save_results", !.raised = raised,
                                      !.run_id = IF raised THEN 0 ELSE run_id,
                                      !.batch = IF raised THEN <<>> ELSE batch,
                                      !.flushed = out.flushed]
           /\ UNCHANGED <<runs, fk_enforced, clock>>
           /\ UNCHANGED pvars

\* ------------------------------------------- ModerationRepository.start_run
\* mutant: the run is created without the status default
StartRun_StatusCompleted(args, now) ==
    /\ runs' = Append(runs, [id |-> NextId(runs), created_at |-> now,
                             completed_at |-> None, status |-> "completed"] @@ args)
    /\ clock' = now
    /\ last' = [NoCall EXCEPT !.op = "start_run", !.ret = Some(NextId(runs))]
    /\ UNCHANGED <<result_rows, flag_rows, fk_enforced>>
    /\ UNCHANGED pvars

StartRun(args, now) ==
    /\ runs' = Append(runs, [id |-> NextId(runs), created_at |-> now,
                             completed_at |-> None, status |-> "running"] @@ args)
    /\ clock' = now
    /\ last' = [NoCall EXCEPT !.op = "start_run", !.ret = Some(NextId(runs))]
    /\ UNCHANGED <<result_rows, flag_rows, fk_enforced>>
    /\ UNCHANGED pvars

\* ---------------------------------------- ModerationRepository.complete_run
CompleteRun(run_id, status, now) ==
    LET pos == Find(runs, run_id)
    IN /\ IF pos = 0
          THEN UNCHANGED <<runs, clock>>
          ELSE /\ runs' = [runs EXCEPT ![pos].status = status,
                                       ![pos].completed_at = Some(now)]
               /\ clock' = now
       /\ last' = [NoCall EXCEPT !.op = "complete_run", !.found = (pos # 0),
                                  !.id = run_id]
       /\ UNCHANGED <<result_rows, flag_rows, fk_enforced>>
       /\ UNCHANGED pvars

\* --------------------------------- ModerationRepository.record_human_review
\* `notes or None`
NotesOrNone(notes) == IF IsNone(notes) \/ Get(notes) = <<>> THEN None ELSE notes

\* mutant: the return value does not tell whether the record exists
RecordHumanReview_ReturnsTrue(result_id, label, notes, now) ==
    LET pos == Find(result_rows, result_id)
    IN /\ IF pos = 0
          THEN UNCHANGED <<result_rows, clock>>
          ELSE /\ result_rows' = [result_rows EXCEPT
                                     ![pos].human_label = Some(label),
                                     ![pos].human_notes = NotesOrNone(notes),
                                     ![pos].human_reviewed_at = Some(now)]
               /\ clock' = now
       /\ last' = [NoCall EXCEPT !.op = "record_human_review", !.found = (pos # 0),
                                  !.ret = Some(TRUE), !.id = result_id]
       /\ UNCHANGED <<runs, flag_rows, fk_enforced>>
       /\ UNCHANGED pvars

\* mutant: a review also overrides the stored verdict
RecordHumanReview_OverridesVerdict(result_id, label, notes, now) ==
    LET pos == Find(result_rows, result_id)
    IN /\ IF pos = 0
          THEN UNCHANGED <<result_rows, clock>>
          ELSE /\ result_rows' = [result_rows EXCEPT
                                     ![pos].human_label = Some(label),
                                     ![pos].human_notes = NotesOrNone(notes),
                                     ![pos].human_reviewed_at = Some(now),
                                     ![pos].flagged = ~result_rows[pos].flagged]
               /\ clock' = now
       /\ last' = [NoCall EXCEPT !.op = "record_human_review", !.found = (pos # 0),
                                  !.ret = Some(pos # 0), !.id = result_id]
       /\ UNCHANGED <<runs, flag_rows, fk_enforced>>
       /\ UNCHANGED pvars

RecordHumanReview(result_id, label, notes, now) ==
    LET pos == Find(result_rows, result_id)
    IN /\ IF pos = 0
          THEN UNCHANGED <<result_rows, clock>>
          ELSE /\ result_rows' = [result_rows EXCEPT
                                     ![pos].human_label = Some(label),
                                     ![pos].human_notes = NotesOrNone(notes),
                                     ![pos].human_reviewed_at = Some(now)]
               /\ clock' = now
       /\ last' = [NoCall EXCEPT !.op = "record_human_review", !.found = (pos # 0),
                                  !.ret = Some(pos # 0), !.id = result_id]
       /\ UNCHANGED <<runs, flag_rows, fk_enforced>>
       /\ UNCHANGED pvars

\* ------------------------------------ ModerationRepository._serialize_result
_serialize_flag(flag) ==
    [category |-> flag.category, score |-> flag.score, violated |-> flag.violated]

\* mutant: the flags of a record are not separated by flag_type
FlagsOfType_IgnoresType(frows, result_id, flag_type) ==
    LET own == SelectSeq2(frows, "result_id", result_id)
    IN [k \in 1..Len(own) |-> _serialize_flag(own[k])]

\* result.flags: the flag rows of the record, then filtered by flag_type
FlagsOfType(frows, result_id, flag_type) ==
    LET own == SelectSeq2(SelectSeq2(frows, "result_id", result_id), "flag_type", flag_type)
    IN [k \in 1..Len(own) |-> _serialize_flag(own[k])]

\* mutant: the legacy key flags carries the flags of both stages
_serialize_result_FlagsOfBothStages(result, frows) ==
    LET input_flags == FlagsOfType(frows, result.id, "input")
        output_flags == FlagsOfType(frows, result.id, "output")
    IN [id |-> result.id,
        prompt_text |-> result.prompt_text,
        input_flagged |-> result.input_flagged,
        input_raw_response |-> result.input_raw_response,
        input_flags |-> input_flags,
        answer_text |-> result.answer_text,
        answer_model |-> result.answer_model,
        answer_raw_response |->
            IF IsNone(result.answer_raw_response)
            THEN [text |-> None, model |-> None] ELSE Get(result.answer_raw_response),
        output_flagged |-> result.output_flagged,
        output_raw_response |->
            IF IsNone(result.output_raw_response)
            THEN Payload(None) ELSE Get(result.output_raw_response),
        output_flags |-> output_flags,
        human_label |-> result.human_label,
        human_label_type |-> result.human_label_type,
        human_notes |-> result.human_notes,
        human_reviewed_at |-> result.human_reviewed_at,
        flagged |-> result.flagged,
        raw_response |-> result.raw_response,
        flags |-> input_flags \o output_flags]

_serialize_result(result, frows) ==
    LET input_flags == FlagsOfType(frows, result.id, "input")
        output_flags == FlagsOfType(frows, result.id, "output")
    IN [id |-> result.id,
        prompt_text |-> result.prompt_text,
        input_flagged |-> result.input_flagged,
        input_raw_response |-> result.input_raw_response,
        input_flags |-> input_flags,
        answer_text |-> result.answer_text,
        answer_model |-> result.answer_model,
        answer_raw_response |->
            IF IsNone(result.answer_raw_response)
            THEN [text |-> None, model |-> None] ELSE Get(result.answer_raw_response),
        output_flagged |-> result.output_flagged,
        output_raw_response |->
            IF IsNone(result.output_raw_response)
            THEN Payload(None) ELSE Get(result.output_raw_response),
        output_flags |-> output_flags,
        human_label |-> result.human_label,
        human_label_type |-> result.human_label_type,
        human_notes |-> result.human_notes,
        human_reviewed_at |-> result.human_reviewed_at,
        flagged |-> result.flagged,
        raw_response |-> result.raw_response,
        flags |-> input_flags]

\* --------------------------------------- ModerationRepository._serialize_run
\* truthiness of an Optional string column (None and "" are falsy)
TextTruthy(o) == IsSome(o) /\ Get(o) # ""

\* truthiness of an Optional label (a string of characters)
LabelTruthy(o) == IsSome(o) /\ Get(o) # <<>>

\* truthiness of an Optional boolean column
BoolTruthy(o) == IsSome(o) /\ Get(o)

\* run.results: the positions of the result rows of the run
ResultsOfRun(run_id, rrows) == { k \in DOMAIN rrows : rrows[k].run_id = run_id }

_serialize_run(run, rrows) ==
    LET own == ResultsOfRun(run.id, rrows)
        input_flagged_count == Cardinality({ k \in own : rrows[k].input_flagged })
        output_flagged_count == Cardinality({ k \in own : BoolTruthy(rrows[k].output_flagged) })
        reviewed_count == Cardinality({ k \in own : LabelTruthy(rrows[k].human_label) })
        answers_generated == Cardinality({ k \in own : TextTruthy(rrows[k].answer_text) })
    IN [id |-> run.id,
        dataset_id |-> run.dataset_id,
        dataset_split |-> run.dataset_split,
        model |-> run.model,
        prompt_limit |-> run.prompt_limit,
        created_at |-> run.created_at,
        completed_at |-> run.completed_at,
        status |-> run.status,
        output_path |-> run.output_path,
        extra_args |-> run.extra_args,
        input_flagged_count |-> input_flagged_count,
        output_flagged_count |-> output_flagged_count,
        flagged_count |-> input_flagged_count,
        reviewed_count |-> reviewed_count,
        answers_generated |-> answers_generated]

\* ------------------------------------------------- repository specification
\* ids a caller may pass: those of stored rows and one that is not stored
RunIdArgs == 1..(MaxRuns + 1)
ResultIdArgs == 1..(MaxStored + 1)

InitRepo ==
    /\ answer_generator = FALSE
    /\ output_classifier = FALSE
    /\ prompts = <<>>
    /\ pc = "loop"
    /\ idx = 1
    /\ results = <<>>
    /\ input_classification = None
    /\ answer = None
    /\ output_classification = None
    /\ calls = <<>>
    /\ returned = None
    /\ EmptyDatabase
    /\ fk_enforced \in BOOLEAN
    /\ session = NoSession
    /\ request = NoRequest
    /\ writers = NoWriters
    /\ reader = NoReader
    /\ cli = NoCli
    /\ log_rows = <<>>
    /\ handling = NoHandling

\* The clock does not advance in this specification: every call reads the
\* same time.
DoStartRun ==
    /\ Len(runs) < MaxRuns
    /\ \E args \in RunArgs : StartRun(args, clock)
    /\ UNCHANGED cvars

DoCompleteRun ==
    /\ \E run_id \in RunIdArgs, status \in CompleteStatuses :
        CompleteRun(run_id, status, clock)
    /\ UNCHANGED cvars

DoSaveResults ==
    /\ \E run_id \in RunIdArgs, batch \in Batches :
          \E failAt \in 0..(Len(batch) + 1) : SaveResults(run_id, batch, failAt)
    /\ UNCHANGED cvars

DoRecordHumanReview ==
    /\ \E result_id \in ResultIdArgs, label \in ReviewLabels, notes \in ReviewNotes :
          RecordHumanReview(result_id, label, notes, clock)
    /\ UNCHANGED cvars

NextRepo ==
    \/ DoStartRun
    \/ DoCompleteRun
    \/ DoSaveResults
    \/ DoRecordHumanReview

SpecRepo == InitRepo /\ [][NextRepo]_vars

\* =================================================================== claims
\* the input classifier's payload reports flagged=true in its first element
PayloadReportsFlagged(raw) == FirstElement(raw).flagged = Some("true")

CallsOf(cap) == { j \in DOMAIN calls : calls[j].cap = cap }

\* C1: every emitted PipelineResult whose input payload reports flagged=true
\* has answer = null and output_classification = null, whatever capabilities
\* are configured.
C1_FlaggedHasNoAnswerNoOutput ==
    \A k \in DOMAIN results :
        PayloadReportsFlagged(results[k].input_classification.raw_response)
            => /\ results[k].answer = None
               /\ results[k].output_classification = None

C1_Witness ==
    /\ pc = "returned"
    /\ answer_generator /\ output_classifier
    /\ \E k \in DOMAIN Get(returned) :
        PayloadReportsFlagged(Get(returned)[k].input_classification.raw_response)

\* C2: with a generator and an output classifier configured, every emitted
\* result whose input classification is not flagged has a non-null answer and
\* a non-null output_classification, also when the answer text is empty.
C2_UnflaggedHasAnswerAndOutput ==
    (answer_generator /\ output_classifier) =>
        \A k \in DOMAIN results :
            ~results[k].input_classification.flagged
                => /\ results[k].answer # None
                   /\ results[k].output_classification # None

C2_Witness ==
    /\ pc = "returned"
    /\ answer_generator /\ output_classifier
    /\ \E k \in DOMAIN Get(returned) :
        /\ ~Get(returned)[k].input_classification.flagged
        /\ Get(returned)[k].answer # None
        /\ Get(Get(returned)[k].answer).text = ""
        /\ Get(returned)[k].output_classification # None

\* C3: without an answer generator every prompt still yields a result, with
\* answer = null and output_classification = null, and neither the generator
\* nor the output classifier is ever invoked.
C3_NoGeneratorNoAnswerNoOutputCall ==
    ~answer_generator =>
        /\ \A k \in DOMAIN results :
              results[k].answer = None /\ results[k].output_classification = None
        /\ CallsOf("generate_answer") = {}
        /\ CallsOf("classify_output") = {}
        /\ (pc = "returned" => Len(Get(returned)) = Len(prompts))

C3_Witness ==
    /\ pc = "returned"
    /\ ~answer_generator /\ output_classifier
    /\ \E k \in DOMAIN Get(returned) : ~Get(returned)[k].input_classification.flagged

\* C4: in every emitted result output_classification is present only if
\* answer is present, and answer is present only if the input classification
\* is not flagged.
C4_PresenceInvariant ==
    \A k \in DOMAIN results :
        /\ results[k].output_classification # None => results[k].answer # None
        /\ results[k].answer # None => ~results[k].input_classification.flagged

C4_Witness ==
    /\ pc = "returned"
    /\ \E k \in DOMAIN Get(returned) : Get(returned)[k].output_classification # None
    /\ \E k \in DOMAIN Get(returned) : Get(returned)[k].input_classification.flagged

\* C5: when no capability raises, process_prompts returns one result per
\* prompt in input order: the i-th result's prompt is the i-th prompt.
C5_OneResultPerPromptInOrder ==
    /\ Len(results) <= Len(prompts)
    /\ \A k \in DOMAIN results : results[k].prompt = prompts[k]
    /\ pc = "returned" =>
          /\ Get(returned) = results
          /\ Len(Get(returned)) = Len(prompts)

C5_Witness ==
    /\ pc = "returned"
    /\ Len(prompts) = 2
    /\ prompts[1] # prompts[2]
    /\ Get(returned)[1].input_classification.flagged

\* C6: when a capability raises on prompt k, the error reaches the caller
\* (nothing is returned), no result exists for prompt k, and no capability is
\* invoked afterwards (no retry, nothing for later prompts).
C6_RaisePropagates ==
    \A j \in DOMAIN calls :
        calls[j].outcome = "raised"
            => /\ j = Len(calls)
               /\ pc = "raised"
               /\ returned = None
               /\ idx = calls[j].prompt
               /\ Len(results) = calls[j].prompt - 1

C6_Witness ==
    /\ pc = "raised"
    /\ Len(calls) >= 2
    /\ calls[Len(calls)].prompt < Len(prompts)

\* ------------------------------------------------ callers of the repository
\* datetime.utcnow(): a reading not earlier than the latest one
Times == { t \in clock..(clock + 1) : t <= MaxClock }

\* status strings a caller may pass to complete_run (any str is accepted)
AnyStatuses == {"completed", "failed", "cancelled"}

\* the arguments of start_run in interactive_mode.main
InteractiveArgs ==
    [dataset_id |-> "interactive", dataset_split |-> "manual_entry", model |-> "m1",
     prompt_limit |-> 0, output_path |-> None, extra_args |-> "interactive"]

\* results service.process_prompts([prompt]) returns to the session
SessionResults ==
    { PipelineResult("hello", ClsClean, Some(AnsFine), None) }

\* pipeline_cli.main / moderation_output.main: start_run of a batch run
CliStartRun ==
    /\ Len(runs) < MaxLifeRuns
    /\ \E args \in RunArgs, now \in Times : StartRun(args, now)
    /\ UNCHANGED cvars

\* complete_run called by any caller with any status string
AnyCompleteRun ==
    /\ \E run_id \in 1..(MaxLifeRuns + 1), status \in AnyStatuses, now \in Times :
          CompleteRun(run_id, status, now)
    /\ UNCHANGED cvars

\* pipeline_cli.main / moderation_output.main: save_results of a batch run
CliSaveResults ==
    /\ \E run_id \in 1..(MaxLifeRuns + 1) :
          \E batch \in { <<v>> : v \in { from_pipeline_result(PipelineResult("attack", ClsToxic, None, None)) } } :
             \E failAt \in 0..(Len(batch) + 1) : SaveResults(run_id, batch, failAt)
    /\ UNCHANGED cvars

\* interactive_mode.main: repository.start_run(dataset_id="interactive", ...)
SessionStart ==
    /\ session.pc = "start"
    /\ Len(runs) < MaxLifeRuns
    /\ \E now \in Times : StartRun(InteractiveArgs, now)
    /\ session' = [session EXCEPT !.pc = "prompt", !.run_id = Get(last'.ret)]
    /\ UNCHANGED <<request, tvars>>

\* a prompt is entered: prompt_count += 1; process_prompts returns a result
SessionProcess ==
    /\ session.pc = "prompt"
    /\ session.prompt_count < MaxSessionPrompts
    /\ \E result \in SessionResults :
          session' = [session EXCEPT !.pc = "save",
                                     !.prompt_count = session.prompt_count + 1,
                                     !.pending = Some(result)]
    /\ last' = [NoCall EXCEPT !.op = "process_prompts"]
    /\ UNCHANGED <<runs, result_rows, flag_rows, fk_enforced, clock>>
    /\ UNCHANGED <<pvars, request, tvars>>

\* a prompt is entered and process_prompts raises: `except Exception: continue`
SessionProcessRaises ==
    /\ session.pc = "prompt"
    /\ session.prompt_count < MaxSessionPrompts
    /\ session' = [session EXCEPT !.prompt_count = session.prompt_count + 1]
    /\ last' = [NoCall EXCEPT !.op = "process_prompts", !.raised = TRUE]
    /\ UNCHANGED <<runs, result_rows, flag_rows, fk_enforced, clock>>
    /\ UNCHANGED <<pvars, request, tvars>>

\* repository.save_results(run_record.id, [result]); an exception is caught
\* by `except Exception: continue`
SessionSave ==
    /\ session.pc = "save"
    /\ \E failAt \in 0..2 : SaveResults(session.run_id, <<Get(session.pending)>>, failAt)
    /\ session' = [session EXCEPT !.pc = IF last'.raised THEN "prompt" ELSE "limit",
                                  !.pending = None]
    /\ UNCHANGED <<request, tvars>>

\* mutant: the session writes the count to model instead of prompt_limit
UpdateLimit_WritesModel(run_id, prompt_count) ==
    LET pos == Find(runs, run_id)
    IN /\ runs' = IF pos = 0 THEN runs
                  ELSE [runs EXCEPT ![pos].model = "edited"]
       /\ last' = [NoCall EXCEPT !.op = "update_prompt_limit", !.found = (pos # 0)]
       /\ UNCHANGED <<result_rows, flag_rows, fk_enforced, clock>>
       /\ UNCHANGED pvars

\* `with repository.session() as session: run = session.get(...);
\*  if run: run.prompt_limit = prompt_count`
UpdateLimit(run_id, prompt_count) ==
    LET pos == Find(runs, run_id)
    IN /\ runs' = IF pos = 0 THEN runs
                  ELSE [runs EXCEPT ![pos].prompt_limit = prompt_count]
       /\ last' = [NoCall EXCEPT !.op = "update_prompt_limit", !.found = (pos # 0)]
       /\ UNCHANGED <<result_rows, flag_rows, fk_enforced, clock>>
       /\ UNCHANGED pvars

SessionUpdateLimit ==
    /\ session.pc = "limit"
    /\ UpdateLimit(session.run_id, session.prompt_count)
    /\ session' = [session EXCEPT !.pc = "prompt"]
    /\ UNCHANGED <<request, tvars>>

\* input() raises EOFError: the inner `except Exception` clause catches it
\* (EOFError is an Exception) and continues the loop, where input() raises
\* again; the outer `except EOFError` clause is not reached
SessionEOF ==
    /\ session.pc \in {"prompt", "eof"}
    /\ session' = [session EXCEPT !.pc = "eof"]
    /\ last' = [NoCall EXCEPT !.op = "input", !.raised = TRUE]
    /\ UNCHANGED <<runs, result_rows, flag_rows, fk_enforced, clock>>
    /\ UNCHANGED <<pvars, request, tvars>>

\* exit / quit / q at the prompt, or KeyboardInterrupt anywhere in the loop
\* body: break, then `finally: repository.complete_run(run_record.id)`
SessionQuit ==
    /\ session.pc \in {"prompt", "save", "limit", "eof"}
    /\ \E now \in Times : CompleteRun(session.run_id, "completed", now)
    /\ session' = [session EXCEPT !.pc = "done", !.pending = None]
    /\ UNCHANGED <<request, tvars>>

\* ------------------------------------------------- dashboard review_result
\* str.upper() on the characters that occur in labels
LowerCase == <<"a", "e", "f", "n", "s", "u">>
UpperCase == <<"A", "E", "F", "N", "S", "U">>

UpperChar(c) ==
    IF \E i \in DOMAIN LowerCase : LowerCase[i] = c
    THEN UpperCase[CHOOSE i \in DOMAIN LowerCase : LowerCase[i] = c]
    ELSE c

StrUpper(str) == [i \in 1..Len(str) |-> UpperChar(str[i])]

Whitespace == {" ", "\t", "\n"}

RECURSIVE LStrip(_)
LStrip(str) ==
    IF str # <<>> /\ str[1] \in Whitespace THEN LStrip(Tail(str)) ELSE str

RECURSIVE RStrip(_)
RStrip(str) ==
    IF str # <<>> /\ str[Len(str)] \in Whitespace
    THEN RStrip(SubSeq(str, 1, Len(str) - 1)) ELSE str

\* mutant: the notes are passed on as typed
StrStrip_Identity(str) == str

\* str.strip()
StrStrip(str) == RStrip(LStrip(str))

\* form fields of a review: label is required, notes may be missing
FormLabels == { <<"U", "n", "s", "a", "f", "e">> }
FormNotes ==
    { None, Some(<<>>), Some(<<" ", "\t">>), Some(<<"o", "k">>),
      Some(<<" ", "o", "k", " ">>) }

\* POST /runs/{run_id}/results/{result_id}/review
ReviewResult ==
    \E result_id \in ResultIdArgs, label \in FormLabels, notes \in FormNotes, now \in Times :
        LET text == IF IsNone(notes) THEN <<>> ELSE Get(notes)
            stripped == StrStrip(text)
            pos == Find(result_rows, result_id)
        IN /\ RecordHumanReview(result_id, StrUpper(label),
                                IF stripped = <<>> THEN None ELSE Some(stripped), now)
           /\ request' = [result_id |-> result_id, label |-> label, notes |-> notes,
                          status |-> IF Get(last'.ret) THEN 303 ELSE 404,
                          prior_notes |-> IF pos = 0 THEN None
                                          ELSE result_rows[pos].human_notes]
           /\ UNCHANGED <<session, tvars>>

\* ------------------------------------------------- callers' specification
InitCallers ==
    /\ answer_generator = FALSE
    /\ output_classifier = FALSE
    /\ prompts = <<>>
    /\ pc = "loop"
    /\ idx = 1
    /\ results = <<>>
    /\ input_classification = None
    /\ answer = None
    /\ output_classification = None
    /\ calls = <<>>
    /\ returned = None
    /\ EmptyDatabase
    /\ fk_enforced = FALSE
    /\ session = NoSession
    /\ request = NoRequest
    /\ writers = NoWriters
    /\ reader = NoReader
    /\ cli = NoCli
    /\ log_rows = <<>>
    /\ handling = NoHandling

NextCallers ==
    \/ CliStartRun
    \/ CliSaveResults
    \/ AnyCompleteRun
    \/ SessionStart
    \/ SessionProcess
    \/ SessionProcessRaises
    \/ SessionSave
    \/ SessionUpdateLimit
    \/ SessionQuit

SpecCallers == InitCallers /\ [][NextCallers]_vars

\* ------------------------------------------ interactive session specification
\* the session has ended; the program is started again
SessionAgain ==
    /\ session.pc = "done"
    /\ Len(runs) < MaxLifeRuns
    /\ session' = NoSession
    /\ last' = NoCall
    /\ UNCHANGED <<runs, result_rows, flag_rows, fk_enforced, clock>>
    /\ UNCHANGED <<pvars, request, tvars>>

\* interactive sessions one after another, the end of the input stream
\* included
NextSession ==
    \/ SessionAgain
    \/ SessionStart
    \/ SessionProcess
    \/ SessionProcessRaises
    \/ SessionSave
    \/ SessionUpdateLimit
    \/ SessionEOF
    \/ SessionQuit

SpecSession == InitCallers /\ [][NextSession]_vars

\* --------------------------------------------------- dashboard run_detail
\* GET /runs/{run_id}: fetch_run_details, then the statistics of the page
run_detail(run_id, rs, rrows, frows) ==
    LET pos == Find(rs, run_id)
        own == SelectSeq2(rrows, "run_id", run_id)
        view == [k \in 1..Len(own) |-> _serialize_result(own[k], frows)]
        input_flagged_total == Cardinality({ k \in DOMAIN view : view[k].input_flagged })
        output_flagged_total ==
            Cardinality({ k \in DOMAIN view : BoolTruthy(view[k].output_flagged) })
        reviewed_total == Cardinality({ k \in DOMAIN view : LabelTruthy(view[k].human_label) })
        answers_generated == Cardinality({ k \in DOMAIN view : TextTruthy(view[k].answer_text) })
    IN IF pos = 0 THEN [status |-> 404]
       ELSE [status |-> 200,
             input_flagged_total |-> input_flagged_total,
             output_flagged_total |-> output_flagged_total,
             reviewed_total |-> reviewed_total,
             pending_reviews |-> input_flagged_total + output_flagged_total - reviewed_total,
             answers_generated |-> answers_generated,
             flagged_total |-> input_flagged_total]

\* ------------------------------------------------ dashboard specification
\* the dashboard reviews the results the batch programs store
NextDashboard ==
    \/ DoStartRun
    \/ CliSaveResults
    \/ ReviewResult

SpecDashboard == InitCallers /\ [][NextDashboard]_vars

\* ------------------------------------------- concurrent sessions specification
\* Every repository call opens a session of its own (session()), so calls of
\* different threads or processes are separate database transactions.  The
\* database shows a statement the rows committed when it executes, never the
\* uncommitted rows of another transaction, and applies a commit as one step.

\* the results concurrent callers save
ConcValues ==
    { PipelineResult("hello", ClsCatOnly, Some(AnsEmpty), Some(ClsToxic)),
      from_pipeline_result(PipelineResult("attack", ClsToxic, None, None)) }

ConcBatches == UNION { [1..n -> ConcValues] : n \in 1..MaxConcBatch }

\* the run the concurrent callers write to and read
ConcRunIds == {1}

\* the rows some transaction has written and not committed, of all writers up
\* to n: the database gives a new row a key no other row has, committed or not
RECURSIVE Pending(_, _)
Pending(field, n) ==
    IF n = 0 THEN <<>> ELSE Pending(field, n - 1) \o writers[n][field]

\* save_results is called: `with self.session() as session`
WriterBegin(w) ==
    /\ writers[w].pc = "idle"
    /\ \E run_id \in ConcRunIds, batch \in ConcBatches :
          writers' = [writers EXCEPT ![w] = [NoWriter EXCEPT !.pc = "record",
                                                !.run_id = run_id,
                                                !.batch = batch]]
    /\ UNCHANGED <<pvars, rvars, session, request, reader, cli, log_rows, handling>>

\* mutant: the record is committed as soon as it is flushed
WriterFlushRecord_Autocommit(w) ==
    LET wr == writers[w]
        assigned == result_rows \o Pending("rows", MaxWriters)
        flushed == Flush(assigned, RecordFor(wr.run_id, wr.batch[wr.k]))
        record == flushed[Len(flushed)]
    IN /\ wr.pc = "record"
       /\ wr.k <= Len(wr.batch)
       /\ ~(fk_enforced /\ wr.run_id \notin Ids(runs))
       /\ result_rows' = Append(result_rows, record)
       /\ writers' = [writers EXCEPT ![w].ids = Append(@, record.id),
                                     ![w].pc = "flags"]
       /\ UNCHANGED <<pvars, runs, flag_rows, fk_enforced, clock, last,
                      session, request, reader, cli, log_rows, handling>>

\* record = ModerationResultRecord(...); session.add(record); session.flush():
\* the INSERT runs inside the writer's transaction
WriterFlushRecord(w) ==
    LET wr == writers[w]
        assigned == result_rows \o Pending("rows", MaxWriters)
        flushed == Flush(assigned, RecordFor(wr.run_id, wr.batch[wr.k]))
        record == flushed[Len(flushed)]
    IN /\ wr.pc = "record"
       /\ wr.k <= Len(wr.batch)
       /\ ~(fk_enforced /\ wr.run_id \notin Ids(runs))
       /\ writers' = [writers EXCEPT ![w].rows = Append(@, record),
                                     ![w].ids = Append(@, record.id),
                                     ![w].pc = "flags"]
       /\ UNCHANGED <<pvars, rvars, session, request, reader, cli, log_rows, handling>>

\* session.add(ModerationFlagRecord(result_id=record.id, ...)) for the flags of
\* the result just flushed; the rows are written inside the same transaction
WriterAddFlags(w) ==
    LET wr == writers[w]
        assigned == flag_rows \o Pending("flags", MaxWriters)
        added == AddFlags(assigned, wr.ids[wr.k], wr.batch[wr.k])
    IN /\ wr.pc = "flags"
       /\ writers' = [writers EXCEPT
                         ![w].flags = @ \o SubSeq(added, Len(assigned) + 1, Len(added)),
                         ![w].k = @ + 1,
                         ![w].pc = "record"]
       /\ UNCHANGED <<pvars, rvars, session, request, reader, cli, log_rows, handling>>

\* the loop is over: session() commits
WriterCommit(w) ==
    LET wr == writers[w]
        out == SessionExit(Txn(result_rows, flag_rows),
                           Txn(result_rows \o wr.rows, flag_rows \o wr.flags), FALSE)
    IN /\ wr.pc = "record"
       /\ wr.k > Len(wr.batch)
       /\ result_rows' = out.results
       /\ flag_rows' = out.flags
       /\ writers' = [writers EXCEPT ![w].rows = <<>>, ![w].flags = <<>>,
                                     ![w].pc = "done"]
       /\ UNCHANGED <<pvars, runs, fk_enforced, clock, last, session, request, reader, cli, log_rows, handling>>

\* a statement or the commit raises (a foreign key the backend enforces, a
\* lock timeout, a lost connection): session() rolls back and re-raises
WriterRaise(w) ==
    LET wr == writers[w]
        out == SessionExit(Txn(result_rows, flag_rows),
                           Txn(result_rows \o wr.rows, flag_rows \o wr.flags), TRUE)
    IN /\ wr.pc \in {"record", "flags"}
       /\ result_rows' = out.results
       /\ flag_rows' = out.flags
       /\ writers' = [writers EXCEPT ![w].rows = <<>>, ![w].flags = <<>>,
                                     ![w].pc = "failed"]
       /\ UNCHANGED <<pvars, runs, fk_enforced, clock, last, session, request, reader, cli, log_rows, handling>>

\* fetch_run_details(run_id) / list_runs(): the SELECT of the runs
ReaderSelectRuns ==
    /\ reader.pc = "idle"
    /\ \E op \in {"fetch_run_details", "list_runs"} :
          LET found == IF op = "list_runs" THEN Ids(runs)
                       ELSE Ids(runs) \cap ConcRunIds
          IN reader' = [reader EXCEPT !.op = op, !.run_ids = found,
                                      !.pc = IF found = {} THEN "done" ELSE "results"]
    /\ UNCHANGED <<pvars, rvars, session, request, writers, cli, log_rows, handling>>

\* selectinload(ModerationRun.results): a second SELECT, of the results of
\* the runs loaded
ReaderSelectResults ==
    /\ reader.pc = "results"
    /\ reader' = [reader EXCEPT
                     !.results = SelectSeq(result_rows,
                                           LAMBDA r : r.run_id \in reader.run_ids),
                     !.pc = "flags"]
    /\ UNCHANGED <<pvars, rvars, session, request, writers, cli, log_rows, handling>>

\* .selectinload(ModerationResultRecord.flags): a third SELECT, of the flags
\* of the results loaded; the call then serializes what it loaded
ReaderSelectFlags ==
    /\ reader.pc = "flags"
    /\ reader' = [reader EXCEPT
                     !.flags = SelectSeq(flag_rows,
                                         LAMBDA f : f.result_id \in Ids(reader.results)),
                     !.pc = "done"]
    /\ UNCHANGED <<pvars, rvars, session, request, writers, cli, log_rows, handling>>

InitConc ==
    /\ answer_generator = TRUE
    /\ output_classifier = TRUE
    /\ prompts = <<>>
    /\ pc = "loop"
    /\ idx = 1
    /\ results = <<>>
    /\ input_classification = None
    /\ answer = None
    /\ output_classification = None
    /\ calls = <<>>
    /\ returned = None
    /\ EmptyDatabase
    /\ fk_enforced \in BOOLEAN
    /\ session = NoSession
    /\ request = NoRequest
    /\ writers = NoWriters
    /\ reader = NoReader
    /\ cli = NoCli
    /\ log_rows = <<>>
    /\ handling = NoHandling

NextConc ==
    \/ DoStartRun
    \/ \E w \in Writers : WriterBegin(w)
    \/ \E w \in Writers : WriterFlushRecord(w)
    \/ \E w \in Writers : WriterAddFlags(w)
    \/ \E w \in Writers : WriterCommit(w)
    \/ \E w \in Writers : WriterRaise(w)
    \/ ReaderSelectRuns
    \/ ReaderSelectResults
    \/ ReaderSelectFlags

SpecConc == InitConc /\ [][NextConc]_vars

\* ------------------------------------------------ log handler specification
\* The programs attach a DatabaseLogHandler to the root logger.  A record
\* logged through any logger propagates to the handlers of the root logger;
\* Handler.handle takes the handler's re-entrant lock and calls emit.
LogLevels == {"INFO", "WARNING"}
LogMessages == {"Starting pipeline", "Pipeline complete"}

\* persist_log(run_id, level, message), when its session commits
persist_log(rows, run_id, level, message) ==
    Append(rows, [id |-> NextId(rows), run_id |-> run_id, level |-> level,
                  message |-> message])

\* code of a program logs a record: the root logger hands it to emit
LogRecord ==
    /\ handling.pc = "idle"
    /\ Len(log_rows) < MaxLogRows
    /\ \E level \in LogLevels, message \in LogMessages :
          handling' = [pc |-> "emit", depth |-> 1, level |-> level, message |-> message]
    /\ UNCHANGED <<pvars, rvars, session, request, writers, reader, cli, log_rows>>

\* msg = self.format(record); persist_log(...) commits the row
EmitPersists ==
    /\ handling.pc = "emit"
    /\ log_rows' = SessionExit(Txn(log_rows, <<>>),
                               Txn(persist_log(log_rows, 1, handling.level,
                                               handling.message), <<>>),
                               FALSE).results
    /\ handling' = [handling EXCEPT !.pc = "return"]
    /\ UNCHANGED <<pvars, rvars, session, request, writers, reader, cli>>

\* self.format or persist_log raises (its session rolls back):
\* `except Exception: logger.exception("Failed to persist log record.")`.
\* The report is a record of the module's logger, which propagates to the
\* root logger and so to this handler: emit is entered again for it.  With no
\* room left on the stack the call raises RecursionError inside the except
\* clause, which no except clause on the way catches: it reaches the code
\* that logged.
EmitFails ==
    /\ handling.pc = "emit"
    /\ log_rows' = SessionExit(Txn(log_rows, <<>>),
                               Txn(persist_log(log_rows, 1, handling.level,
                                               handling.message), <<>>),
                               TRUE).results
    /\ handling' =
          IF handling.depth < MaxEmitDepth
          THEN [pc |-> "emit", depth |-> handling.depth + 1, level |-> "ERROR",
                message |-> "Failed to persist log record."]
          ELSE [handling EXCEPT !.pc = "raised", !.depth = 0]
    /\ UNCHANGED <<pvars, rvars, session, request, writers, reader, cli>>

\* emit returns: to logger.exception in the except clause of the emit call
\* below it, or to the code that logged
EmitReturns ==
    /\ handling.pc = "return"
    /\ handling' = IF handling.depth = 1 THEN NoHandling
                   ELSE [handling EXCEPT !.depth = handling.depth - 1]
    /\ UNCHANGED <<pvars, rvars, session, request, writers, reader, cli, log_rows>>

NextLog ==
    \/ LogRecord
    \/ EmitPersists
    \/ EmitFails
    \/ EmitReturns

SpecLog == InitCallers /\ [][NextLog]_vars

\* ------------------------------------------------ batch CLI specification
\* pipeline_cli.main and moderation_output.main, one invocation after another
CliPrograms == {"pipeline_cli", "moderation_output"}

\* what service.process_prompts / service.moderate_prompts returns
CliBatches(program) ==
    LET value == IF program = "pipeline_cli"
                 THEN PipelineResult("hello", ClsClean, Some(AnsFine), None)
                 ELSE from_pipeline_result(PipelineResult("attack", ClsToxic, None, None))
    IN { [k \in 1..n |-> value] : n \in 0..MaxCliPrompts }

\* `if args.database_url:` repository.start_run(...), else no run
MainStart ==
    /\ cli.pc = "start"
    /\ Len(cli.ended) < MaxLifeRuns
    /\ \E program \in CliPrograms, database \in BOOLEAN :
          /\ IF database
             THEN \E args \in RunArgs, now \in Times : StartRun(args, now)
             ELSE UNCHANGED <<pvars, rvars>>
          /\ cli' = [cli EXCEPT !.pc = "process", !.program = program,
                                !.database = database,
                                !.run_id = IF database THEN NextId(runs) ELSE 0,
                                !.pending = None]
    /\ UNCHANGED <<session, request, writers, reader, log_rows, handling>>

\* results = service.process_prompts(prompts) returns
MainProcess ==
    /\ cli.pc = "process"
    /\ \E batch \in CliBatches(cli.program) :
          /\ Len(result_rows) + Len(batch) <= MaxStored
          /\ cli' = [cli EXCEPT !.pc = "save", !.pending = Some(batch)]
    /\ last' = [NoCall EXCEPT !.op = "process_prompts"]
    /\ UNCHANGED <<runs, result_rows, flag_rows, fk_enforced, clock>>
    /\ UNCHANGED <<pvars, session, request, writers, reader, log_rows, handling>>

\* process_prompts raises, or writing the output file raises: main has no
\* try statement, the exception ends the invocation
MainRaises ==
    /\ cli.pc \in {"process", "save"}
    /\ cli' = [cli EXCEPT !.pc = "crashed"]
    /\ last' = [NoCall EXCEPT !.op = IF cli.pc = "process" THEN "process_prompts"
                                     ELSE "write_output",
                              !.raised = TRUE]
    /\ UNCHANGED <<runs, result_rows, flag_rows, fk_enforced, clock>>
    /\ UNCHANGED <<pvars, session, request, writers, reader, log_rows, handling>>

\* mutant: an exception of save_results is swallowed
MainSave_SwallowsError ==
    /\ cli.pc = "save"
    /\ IF cli.database
       THEN /\ \E failAt \in 0..(Len(Get(cli.pending)) + 1) :
                  SaveResults(cli.run_id, Get(cli.pending), failAt)
            /\ cli' = [cli EXCEPT !.pc = "complete"]
       ELSE /\ cli' = [cli EXCEPT !.pc = "done"]
            /\ UNCHANGED <<pvars, rvars>>
    /\ UNCHANGED <<session, request, writers, reader, log_rows, handling>>

\* `if repository and run_record: repository.save_results(run_record.id, results)`
MainSave ==
    /\ cli.pc = "save"
    /\ IF cli.database
       THEN /\ \E failAt \in 0..(Len(Get(cli.pending)) + 1) :
                  SaveResults(cli.run_id, Get(cli.pending), failAt)
            /\ cli' = [cli EXCEPT !.pc = IF last'.raised THEN "crashed" ELSE "complete"]
       ELSE /\ cli' = [cli EXCEPT !.pc = "done"]
            /\ UNCHANGED <<pvars, rvars>>
    /\ UNCHANGED <<session, request, writers, reader, log_rows, handling>>

\* repository.complete_run(run_record.id)
MainComplete ==
    /\ cli.pc = "complete"
    /\ \E now \in Times : CompleteRun(cli.run_id, "completed", now)
    /\ cli' = [cli EXCEPT !.pc = "done"]
    /\ UNCHANGED <<session, request, writers, reader, log_rows, handling>>

\* the process has ended; the program is invoked again
MainAgain ==
    /\ cli.pc \in {"done", "crashed"}
    /\ cli' = [NoCli EXCEPT !.ended =
                  Append(cli.ended,
                         [run_id |-> cli.run_id, outcome |-> cli.pc,
                          processed |-> IF IsNone(cli.pending) THEN None
                                        ELSE Some(Len(Get(cli.pending)))])]
    /\ UNCHANGED <<pvars, rvars, session, request, writers, reader, log_rows, handling>>

NextCli ==
    \/ MainStart
    \/ MainProcess
    \/ MainRaises
    \/ MainSave
    \/ MainComplete
    \/ MainAgain

SpecCli == InitCallers /\ [][NextCli]_vars

\* ------------------------------------------------- claims on the repository
SaveCommitted(l) == l.op = "save_results" /\ ~l.raised
SaveRaised(l) == l.op = "save_results" /\ l.raised

\* the flags of an Optional classification stage
StageFlags(stage) == IF IsNone(stage) THEN <<>> ELSE Get(stage).flags

RECURSIVE Count(_, _)
Count(seq, x) ==
    IF seq = <<>> THEN 0
    ELSE (IF seq[1] = x THEN 1 ELSE 0) + Count(Tail(seq), x)

Range(seq) == { seq[k] : k \in DOMAIN seq }

\* equality of two sequences as multisets
SameBag(a, b) == \A x \in Range(a) \cup Range(b) : Count(a, x) = Count(b, x)

\* C7: a save_results call that raises (while a result is written, or at
\* commit) leaves the stored result and flag rows exactly as they were: none
\* of the batch's rows remains, rows of earlier calls are unchanged.
C7_FailedSaveStoresNothing ==
    [][ SaveRaised(last') => (result_rows' = result_rows /\ flag_rows' = flag_rows) ]_vars

\* an earlier call committed a record with flags; this call flushed a record
\* and then raised
C7_Witness ==
    /\ SaveRaised(last)
    /\ last.flushed = 1
    /\ Len(result_rows) = 1
    /\ flag_rows # <<>>

\* C8: a save_results call that commits n results appends exactly n result
\* records of the given run; each pipeline result gets one input flag record
\* per input flag and, only when its output stage is present, one output flag
\* record per output flag, all linked to its own record; rows stored before
\* are unchanged.
C8_SaveAddsRecordsAndFlags ==
    [][ SaveCommitted(last') =>
          LET n == Len(last'.batch)
              old == Len(result_rows)
              new == SubSeq(result_rows', old + 1, old + n)
          IN /\ Len(result_rows') = old + n
             /\ SubSeq(result_rows', 1, old) = result_rows
             /\ Len(flag_rows') >= Len(flag_rows)
             /\ SubSeq(flag_rows', 1, Len(flag_rows)) = flag_rows
             /\ \A k \in 1..n :
                   /\ new[k].run_id = last'.run_id
                   /\ new[k].id \notin Ids(result_rows)
                   /\ \A j \in 1..n : new[j].id = new[k].id => j = k
                   /\ IsPipelineShaped(last'.batch[k]) =>
                         /\ FlagsOfType(flag_rows', new[k].id, "input")
                               = last'.batch[k].input_classification.flags
                         /\ FlagsOfType(flag_rows', new[k].id, "output")
                               = StageFlags(last'.batch[k].output_classification)
             /\ \A f \in (Len(flag_rows) + 1)..Len(flag_rows') :
                   /\ flag_rows'[f].result_id \in Ids(new)
                   /\ flag_rows'[f].flag_type \in {"input", "output"}
      ]_vars

C8_Witness ==
    /\ SaveCommitted(last)
    /\ Len(last.batch) = 2
    /\ last.batch[1].kind = "PipelineResult"
    /\ StageFlags(last.batch[1].output_classification) # <<>>
    /\ last.batch[2].kind = "PipelineResult"
    /\ IsNone(last.batch[2].output_classification)
    /\ last.batch[2].input_classification.flags # <<>>

\* C9: every stored result record has legacy column flagged equal to
\* input_flagged and legacy column raw_response equal to input_raw_response,
\* whatever its output stage says.
C9_LegacyColumnsMirrorInput ==
    \A k \in DOMAIN result_rows :
        /\ result_rows[k].flagged = result_rows[k].input_flagged
        /\ result_rows[k].raw_response = result_rows[k].input_raw_response

C9_Witness ==
    /\ \E k \in DOMAIN result_rows :
          /\ result_rows[k].output_flagged = Some(TRUE)
          /\ ~result_rows[k].input_flagged
          /\ IsSome(result_rows[k].human_label)
    /\ \E k \in DOMAIN result_rows : IsNone(result_rows[k].answer_model)
    /\ \E r \in DOMAIN runs : runs[r].status = "completed"

\* C10: round trip.  After a PipelineResult p is saved, the serialized view of
\* its record has input_flagged, answer_text (null without answer) and
\* output_flagged (null without output stage) of p, and input_flags /
\* output_flags equal, as multisets, to the flags of p's stages.
C10_RoundTrip ==
    SaveCommitted(last) =>
        \A k \in DOMAIN last.batch :
            LET p == last.batch[k]
                row == result_rows[Len(result_rows) - Len(last.batch) + k]
                view == _serialize_result(row, flag_rows)
            IN p.kind = "PipelineResult" =>
                  /\ view.input_flagged = p.input_classification.flagged
                  /\ view.answer_text =
                        IF IsNone(p.answer) THEN None ELSE Some(Get(p.answer).text)
                  /\ view.output_flagged =
                        IF IsNone(p.output_classification) THEN None
                        ELSE Some(Get(p.output_classification).flagged)
                  /\ SameBag(view.input_flags, p.input_classification.flags)
                  /\ SameBag(view.output_flags, StageFlags(p.output_classification))

C10_Witness ==
    /\ SaveCommitted(last)
    /\ Len(result_rows) = 2
    /\ Len(last.batch) = 1
    /\ last.batch[1].kind = "PipelineResult"
    /\ IsSome(last.batch[1].answer)
    /\ Len(last.batch[1].input_classification.flags) = 2
    /\ StageFlags(last.batch[1].output_classification) # <<>>

\* the flag rows of one result record stored with the given flag_type
StoredFlags(result_id, flag_type) ==
    SelectSeq(flag_rows, LAMBDA f : f.result_id = result_id /\ f.flag_type = flag_type)

\* C11: in the serialized view of every stored result record the legacy key
\* flags equals input_flags, and it is exactly the serialization of the
\* record's flag rows stored with flag_type input: no flag row stored with
\* flag_type output (and no row of another record) appears in it.
C11_LegacyFlagsAreInputFlags ==
    \A k \in DOMAIN result_rows :
        LET view == _serialize_result(result_rows[k], flag_rows)
            stored == StoredFlags(result_rows[k].id, "input")
        IN /\ view.flags = view.input_flags
           /\ Len(view.flags) = Len(stored)
           /\ \A j \in DOMAIN stored :
                 /\ view.flags[j].category = stored[j].category
                 /\ view.flags[j].score = stored[j].score
                 /\ view.flags[j].violated = stored[j].violated

\* a record with output flags, output_flagged true and input_flagged false
C11_Witness ==
    \E k \in DOMAIN result_rows :
        /\ result_rows[k].output_flagged = Some(TRUE)
        /\ ~result_rows[k].input_flagged
        /\ StoredFlags(result_rows[k].id, "output") # <<>>
        /\ StoredFlags(result_rows[k].id, "input") # <<>>
        /\ _serialize_result(result_rows[k], flag_rows).output_flags # <<>>

\* a flag row without its primary key
FlagColumns(f) ==
    [result_id |-> f.result_id, category |-> f.category, score |-> f.score,
     violated |-> f.violated, flag_type |-> f.flag_type]

\* every flag row of one result record, in stored order, without keys
FlagsOfRecord(result_id) ==
    LET own == SelectSeq(flag_rows, LAMBDA f : f.result_id = result_id)
    IN [j \in 1..Len(own) |-> FlagColumns(own[j])]

\* the PipelineResult instance with the attributes of a value
AsPipelineResult(v) ==
    PipelineResult(v.prompt, v.input_classification, v.answer, v.output_classification)

\* C12: after a committed save_results of any mixed batch, every element
\* with the attribute input_classification, PipelineResult instance or not,
\* has the record columns and flag records the PipelineResult branch
\* produces for a PipelineResult with the same attributes; every element
\* without it has the legacy record and input flags only; this holds for
\* each element whatever its neighbours are.
C12_StructuralDispatchPerElement ==
    SaveCommitted(last) =>
        \A k \in DOMAIN last.batch :
            LET v == last.batch[k]
                row == result_rows[Len(result_rows) - Len(last.batch) + k]
                stored == FlagsOfRecord(row.id)
            IN IF "input_classification" \in DOMAIN v
               THEN LET nominal == StageFlagRecords(<<>>, row.id, AsPipelineResult(v))
                    IN /\ row = [id |-> row.id] @@ PipelineRecord(last.run_id, AsPipelineResult(v))
                       /\ stored = [j \in 1..Len(nominal) |-> FlagColumns(nominal[j])]
               ELSE /\ row = [id |-> row.id] @@ LegacyRecord(last.run_id, v)
                    /\ Len(stored) = Len(v.flags)
                    /\ \A j \in DOMAIN stored : stored[j].flag_type = "input"

\* a batch mixing a legacy result and a value that is no PipelineResult
\* instance but has input_classification and an output stage
C12_Witness ==
    /\ SaveCommitted(last)
    /\ Len(last.batch) = 2
    /\ last.batch[1].kind = "ModerationResult"
    /\ last.batch[2].kind = "Other"
    /\ FlagsOfRecord(result_rows[2].id) # <<>>
    /\ result_rows[2].output_flagged = Some(TRUE)

\* C13: after a committed save_results, the record of every legacy
\* ModerationResult of the batch has input_flagged / input_raw_response and
\* the mirrored flagged / raw_response of the result, null answer_text,
\* answer_model, answer_raw_response, output_flagged and output_raw_response,
\* and exactly one flag record per flag of the result, each tagged input.
C13_LegacySaveWritesInputOnly ==
    SaveCommitted(last) =>
        \A k \in DOMAIN last.batch :
            LET v == last.batch[k]
                row == result_rows[Len(result_rows) - Len(last.batch) + k]
                stored == FlagsOfRecord(row.id)
            IN v.kind = "ModerationResult" =>
                  /\ row.run_id = last.run_id
                  /\ row.prompt_text = v.prompt
                  /\ row.input_flagged = v.flagged
                  /\ row.input_raw_response = v.raw_response
                  /\ row.flagged = v.flagged
                  /\ row.raw_response = v.raw_response
                  /\ IsNone(row.answer_text)
                  /\ IsNone(row.answer_model)
                  /\ IsNone(row.answer_raw_response)
                  /\ IsNone(row.output_flagged)
                  /\ IsNone(row.output_raw_response)
                  /\ Len(stored) = Len(v.flags)
                  /\ \A j \in DOMAIN stored :
                        /\ stored[j].flag_type = "input"
                        /\ stored[j].category = v.flags[j].category
                        /\ stored[j].score = v.flags[j].score
                        /\ stored[j].violated = v.flags[j].violated

\* a flagged legacy result with a flag, saved after a pipeline result
C13_Witness ==
    /\ SaveCommitted(last)
    /\ Len(last.batch) = 1
    /\ last.batch[1].kind = "ModerationResult"
    /\ last.batch[1].flagged
    /\ last.batch[1].flags # <<>>
    /\ Len(result_rows) = 2
    /\ IsSome(result_rows[1].output_flagged)

\* C15: complete_run with the id of no stored run and record_human_review
\* with the id of no stored result raise nothing and leave the run, result
\* and flag tables exactly as they were; record_human_review returns false
\* then, and true when the result is stored.
C15_UnknownIdIsNoOp ==
    [][ /\ (last'.op = "complete_run" /\ last'.id \notin Ids(runs)) =>
              /\ ~last'.raised
              /\ runs' = runs
              /\ result_rows' = result_rows
              /\ flag_rows' = flag_rows
        /\ last'.op = "record_human_review" =>
              /\ ~last'.raised
              /\ last'.ret = Some(last'.id \in Ids(result_rows))
              /\ last'.id \notin Ids(result_rows) =>
                    /\ runs' = runs
                    /\ result_rows' = result_rows
                    /\ flag_rows' = flag_rows
      ]_vars

\* a review of a result id that is not stored, in a database that holds a
\* run, a reviewed record and flags
C15_Witness ==
    /\ last.op = "record_human_review"
    /\ last.id \notin Ids(result_rows)
    /\ last.ret = Some(FALSE)
    /\ runs # <<>>
    /\ flag_rows # <<>>
    /\ \E k \in DOMAIN result_rows : IsSome(result_rows[k].human_label)

\* C19: a record_human_review call on a stored result record changes at most
\* that record's human_label, human_notes and human_reviewed_at: every other
\* column of the record, every other result record, every flag record and
\* every run is as before, and no flag record is added.
C19_ReviewChangesOnlyReviewFields ==
    [][ (last'.op = "record_human_review" /\ last'.id \in Ids(result_rows)) =>
          /\ runs' = runs
          /\ flag_rows' = flag_rows
          /\ Len(result_rows') = Len(result_rows)
          /\ \A k \in DOMAIN result_rows :
                IF result_rows[k].id = last'.id
                THEN result_rows'[k] =
                        [result_rows[k] EXCEPT
                            !.human_label = result_rows'[k].human_label,
                            !.human_notes = result_rows'[k].human_notes,
                            !.human_reviewed_at = result_rows'[k].human_reviewed_at]
                ELSE result_rows'[k] = result_rows[k]
      ]_vars

\* the reviewed record has flags of both stages; another record is stored
\* unreviewed
C19_Witness ==
    /\ last.op = "record_human_review"
    /\ last.id \in Ids(result_rows)
    /\ Len(result_rows) = 2
    /\ runs # <<>>
    /\ \E k \in DOMAIN result_rows :
          /\ result_rows[k].id = last.id
          /\ IsSome(result_rows[k].human_label)
          /\ IsSome(result_rows[k].human_notes)
          /\ StoredFlags(last.id, "input") # <<>>
          /\ StoredFlags(last.id, "output") # <<>>
    /\ \E k \in DOMAIN result_rows :
          /\ result_rows[k].id # last.id
          /\ IsNone(result_rows[k].human_label)

\* ------------------------------------------------- claims on the callers
\* C14: every start_run call appends exactly one run, with status running
\* and completed_at null, and returns its id, which no other stored run has;
\* the runs stored before, the result records and the flag records are
\* unchanged.
C14_StartRunCreatesOneRunningRun ==
    [][ last'.op = "start_run" =>
          LET new == runs'[Len(runs')]
          IN /\ Len(runs') = Len(runs) + 1
             /\ SubSeq(runs', 1, Len(runs)) = runs
             /\ new.status = "running"
             /\ IsNone(new.completed_at)
             /\ last'.ret = Some(new.id)
             /\ \A k \in DOMAIN runs : runs[k].id # new.id
             /\ result_rows' = result_rows
             /\ flag_rows' = flag_rows
      ]_vars

\* a second run was started while a completed run and results are stored
C14_Witness ==
    /\ last.op = "start_run"
    /\ Len(runs) = 2
    /\ runs[1].status = "completed"
    /\ runs[2].status = "running"
    /\ result_rows # <<>>
    /\ flag_rows # <<>>

\* C16: a complete_run call on a run that an earlier complete_run already
\* completed is a no-op: the run keeps the completed_at the first call
\* stamped.
C16_SecondCompleteKeepsCompletedAt ==
    [][ last'.op = "complete_run" =>
          \A k \in DOMAIN runs :
              (runs[k].id = last'.id /\ IsSome(runs[k].completed_at)) =>
                  runs'[k].completed_at = runs[k].completed_at
      ]_vars

\* C17: whatever status string complete_run is called with, the status of
\* every stored run is one of running, completed, failed.
C17_StatusInDomain ==
    \A k \in DOMAIN runs : runs[k].status \in {"running", "completed", "failed"}

\* run k is still stored after the step, with the columns start_run set
\* (other than prompt_limit) unchanged, and its status and completed_at
\* changed by nothing but a complete_run call on it
RunKeptAndCompletedOnlyByCompleteRun(k) ==
    /\ k \in DOMAIN runs'
    /\ runs'[k].id = runs[k].id
    /\ runs'[k].dataset_id = runs[k].dataset_id
    /\ runs'[k].dataset_split = runs[k].dataset_split
    /\ runs'[k].model = runs[k].model
    /\ runs'[k].output_path = runs[k].output_path
    /\ runs'[k].extra_args = runs[k].extra_args
    /\ runs'[k].created_at = runs[k].created_at
    /\ (runs'[k].status # runs[k].status \/ runs'[k].completed_at # runs[k].completed_at) =>
          (last'.op = "complete_run" /\ last'.id = runs[k].id)

\* C18 as stated: after start_run no operation of the repository, the batch
\* CLI or the interactive session changes a run's dataset_id, dataset_split,
\* model, prompt_limit, output_path, extra_args or created_at, or deletes
\* the run; only status and completed_at change, by complete_run.
C18_Original ==
    [][ \A k \in DOMAIN runs :
            /\ RunKeptAndCompletedOnlyByCompleteRun(k)
            /\ runs'[k].prompt_limit = runs[k].prompt_limit
      ]_vars

\* C18 amended: as stated, except that prompt_limit does change: the
\* interactive session, after each prompt it saved, sets the prompt_limit of
\* its own run to its prompt count; nothing else changes prompt_limit.
C18_RunChangesOnlyByCompleteRunAndSession ==
    [][ \A k \in DOMAIN runs :
            /\ RunKeptAndCompletedOnlyByCompleteRun(k)
            /\ runs'[k].prompt_limit # runs[k].prompt_limit =>
                  /\ last'.op = "update_prompt_limit"
                  /\ runs[k].id = session.run_id
                  /\ runs'[k].prompt_limit = session.prompt_count
      ]_vars

\* the session has just raised the prompt_limit of its run, next to a
\* completed batch run
C18_Witness ==
    /\ last.op = "update_prompt_limit"
    /\ last.found
    /\ Len(runs) = 2
    /\ \E k \in DOMAIN runs :
          /\ runs[k].id = session.run_id
          /\ runs[k].prompt_limit = session.prompt_count
          /\ runs[k].prompt_limit = 2
          /\ runs[k].status = "running"
    /\ \E k \in DOMAIN runs : runs[k].id # session.run_id /\ IsSome(runs[k].completed_at)

\* ----------------------------------------------- claims on the dashboard
\* notes that are missing, empty or made of whitespace only
IsBlank(notes) ==
    IsNone(notes) \/ \A i \in DOMAIN Get(notes) : Get(notes)[i] \in Whitespace

\* C20: after a review submitted through the dashboard for a stored result,
\* the record's human_label is the submitted label in upper case, and if the
\* submitted notes are missing, empty or whitespace only its human_notes is
\* null, whatever notes the record held before.
C20_BlankNotesStoredAsNull ==
    (last.op = "record_human_review" /\ request.status = 303) =>
        \E k \in DOMAIN result_rows :
            /\ result_rows[k].id = request.result_id
            /\ result_rows[k].human_label = Some(StrUpper(request.label))
            /\ IsBlank(request.notes) => IsNone(result_rows[k].human_notes)
            /\ ~IsBlank(request.notes) => IsSome(result_rows[k].human_notes)

\* a review with whitespace-only notes of a record that held notes
C20_Witness ==
    /\ last.op = "record_human_review"
    /\ request.status = 303
    /\ request.notes = Some(<<" ", "\t">>)
    /\ request.label = <<"U", "n", "s", "a", "f", "e">>
    /\ IsSome(request.prior_notes)
    /\ \E k \in DOMAIN result_rows :
          /\ result_rows[k].id = request.result_id
          /\ IsNone(result_rows[k].human_notes)
          /\ result_rows[k].human_label = Some(<<"U", "N", "S", "A", "F", "E">>)

\* ------------------------------------------------ claims on normalization
\* the categories / category_scores map of the first element of a payload
\* (empty when the payload has no element or the element lacks the map)
PayloadMap(raw, key) ==
    IF IsNone(raw.results) \/ Get(raw.results) = <<>> THEN <<>>
    ELSE LET m == Get(raw.results)[1][key] IN IF IsNone(m) THEN <<>> ELSE Get(m)

\* one flag per key of categories, in order; violated is the category's
\* boolean; score is the same-named score, 0 when there is none
FlagsFollowCategories(cls) ==
    LET cats == PayloadMap(cls.raw_response, "categories")
        scores == PayloadMap(cls.raw_response, "category_scores")
    IN /\ Len(cls.flags) = Len(cats)
       /\ \A k \in DOMAIN cats :
             /\ cls.flags[k].category = cats[k][1]
             /\ cls.flags[k].violated = (cats[k][2] = "true")
             /\ \/ \E j \in DOMAIN scores :
                      scores[j][1] = cats[k][1] /\ cls.flags[k].score = scores[j][2]
                \/ /\ \A j \in DOMAIN scores : scores[j][1] # cats[k][1]
                   /\ cls.flags[k].score = 0

\* C21: in every result of process_prompts the flags of the input stage and
\* of the output stage are one ModerationFlag per key of the categories map
\* of the payload's first element, in that map's order, with violated the
\* category's boolean and score the same-named category_scores entry or 0.0;
\* a score whose key is no category gives no flag.
C21_OneFlagPerCategory ==
    \A k \in DOMAIN results :
        /\ FlagsFollowCategories(results[k].input_classification)
        /\ IsSome(results[k].output_classification) =>
              FlagsFollowCategories(Get(results[k].output_classification))

\* a score without category, a category without score, on both stages
C21_Witness ==
    /\ Len(results) = 2
    /\ results[1].input_classification.raw_response = Payload(Some(<<ElemCatOnly>>))
    /\ IsSome(results[1].output_classification)
    /\ Get(results[1].output_classification).raw_response = Payload(Some(<<ElemCatOnly>>))
    /\ Len(Get(results[1].output_classification).flags) = 2
    /\ results[2].input_classification.raw_response = Payload(Some(<<ElemFlagNoCat>>))
    /\ Len(results[2].input_classification.flags) = 1

\* some category of the payload's first element is true
SomeCategoryTrue(raw) ==
    \E k \in DOMAIN PayloadMap(raw, "categories") :
        PayloadMap(raw, "categories")[k][2] = "true"

\* C22: the flagged verdict of both stages is the flagged key of the
\* payload's first element (false when absent), whatever the categories
\* say, and with a generator configured the answer is generated exactly when
\* that key is not true.
C22_FlaggedIsPayloadFlag ==
    \A k \in DOMAIN results :
        LET r == results[k] IN
        /\ r.input_classification.flagged
              = PayloadReportsFlagged(r.input_classification.raw_response)
        /\ answer_generator =>
              (IsSome(r.answer) <=> ~PayloadReportsFlagged(r.input_classification.raw_response))
        /\ IsSome(r.output_classification) =>
              Get(r.output_classification).flagged
                 = PayloadReportsFlagged(Get(r.output_classification).raw_response)

\* flagged=false with a category true: answered; flagged=true with no
\* category true: not answered
C22_Witness ==
    /\ answer_generator
    /\ Len(results) = 2
    /\ ~PayloadReportsFlagged(results[1].input_classification.raw_response)
    /\ SomeCategoryTrue(results[1].input_classification.raw_response)
    /\ IsSome(results[1].answer)
    /\ PayloadReportsFlagged(results[2].input_classification.raw_response)
    /\ ~SomeCategoryTrue(results[2].input_classification.raw_response)
    /\ IsNone(results[2].answer)

\* the payload has no results key, a null or empty results list
NoElement(raw) == IsNone(raw.results) \/ Get(raw.results) = <<>>

C24_AnswersGeneratedCountsAnswers ==
    \A r \in DOMAIN runs :
        LET view == _serialize_run(runs[r], result_rows)
        IN /\ view.answers_generated =
                 Cardinality({ k \in DOMAIN result_rows :
                                 /\ result_rows[k].run_id = runs[r].id
                                 /\ IsSome(result_rows[k].answer_text) })
           /\ view.flagged_count = view.input_flagged_count

\* --------------------------------------------- claims on the call sequence
\* the input verdict / the answer of prompt p: of its result once appended,
\* of the locals of the running iteration before
VerdictOf(p) ==
    IF p <= Len(results) THEN results[p].input_classification
    ELSE Get(input_classification)

AnswerOf(p) == IF p <= Len(results) THEN results[p].answer ELSE answer

\* C25: the capability calls of a process_prompts call are, prompt by
\* prompt in input order, one classify_input(prompt text), then at most one
\* generate_answer(prompt text) directly after a classify_input that
\* returned an unflagged verdict, then at most one classify_output(answer
\* text) directly after the generate_answer that returned; a call is made
\* only after the previous one returned, and calls of prompt k+1 come after
\* all calls of prompt k.
C25_CallSequence ==
    /\ calls # <<>> => (calls[1].cap = "classify_input" /\ calls[1].prompt = 1)
    /\ \A p \in 1..Len(results) :
          Cardinality({ j \in DOMAIN calls :
                          calls[j].prompt = p /\ calls[j].cap = "classify_input" }) = 1
    /\ \A j \in DOMAIN calls :
          LET c == calls[j] IN
          /\ j < Len(calls) => c.outcome = "returned"
          /\ c.cap = "classify_input" =>
                /\ c.text = prompts[c.prompt]
                /\ j > 1 => calls[j - 1].prompt = c.prompt - 1
          /\ c.cap = "generate_answer" =>
                /\ j > 1
                /\ calls[j - 1].cap = "classify_input"
                /\ calls[j - 1].prompt = c.prompt
                /\ c.text = prompts[c.prompt]
                /\ ~VerdictOf(c.prompt).flagged
          /\ c.cap = "classify_output" =>
                /\ j > 1
                /\ calls[j - 1].cap = "generate_answer"
                /\ calls[j - 1].prompt = c.prompt
                /\ IsSome(AnswerOf(c.prompt))
                /\ c.text = Get(AnswerOf(c.prompt)).text

\* two prompts: the first unflagged with answer and output call, the second
\* flagged with classify_input only
C25_Witness ==
    /\ pc = "returned"
    /\ Len(calls) = 4
    /\ calls[1].cap = "classify_input"
    /\ calls[2].cap = "generate_answer"
    /\ calls[3].cap = "classify_output"
    /\ calls[3].text # calls[1].text
    /\ calls[4].cap = "classify_input"
    /\ calls[4].prompt = 2
    /\ results[2].input_classification.flagged

\* C26: when a capability raises on prompt k, the results completed for
\* prompts 1..k-1 are still delivered to the caller of process_prompts.
C26_EarlierResultsDelivered ==
    (pc = "raised" /\ results # <<>>) => returned = Some(results)

\* ------------------------------------------------ claims on stored flags
\* C27: every stored flag record has flag_type input or output; the
\* input_flags and output_flags of a record's serialized view together are
\* exactly the record's stored flags, each once; a record has flag records
\* of type output only if its output_flagged column is not null.
C27_FlagTypesPartition ==
    /\ \A f \in DOMAIN flag_rows : flag_rows[f].flag_type \in {"input", "output"}
    /\ \A k \in DOMAIN result_rows :
          LET row == result_rows[k]
              view == _serialize_result(row, flag_rows)
              own == SelectSeq(flag_rows, LAMBDA f : f.result_id = row.id)
              all == [j \in 1..Len(own) |->
                         [category |-> own[j].category, score |-> own[j].score,
                          violated |-> own[j].violated]]
          IN /\ Len(view.input_flags) + Len(view.output_flags) = Len(own)
             /\ SameBag(view.input_flags \o view.output_flags, all)
             /\ (\E j \in DOMAIN own : own[j].flag_type = "output") =>
                    IsSome(row.output_flagged)

\* a record with flags of both types next to a legacy record with flags
C27_Witness ==
    /\ Len(result_rows) = 2
    /\ StoredFlags(result_rows[1].id, "input") # <<>>
    /\ StoredFlags(result_rows[1].id, "output") # <<>>
    /\ IsNone(result_rows[2].output_flagged)
    /\ IsNone(result_rows[2].answer_model)
    /\ StoredFlags(result_rows[2].id, "input") # <<>>
    /\ last.op = "save_results"

\* C28: every stored result record's run_id is the id of a stored run and
\* every stored flag record's result_id is the id of a stored result record
\* (so a save_results call with the run_id of no stored run stores nothing).
C28_ReferentialIntegrity ==
    /\ \A k \in DOMAIN result_rows : result_rows[k].run_id \in Ids(runs)
    /\ \A f \in DOMAIN flag_rows : flag_rows[f].result_id \in Ids(result_rows)

\* the positions in writer w's batch whose records the reader has loaded; a
\* call that rolled back has no records (its keys may be given out again)
SeenOf(w) ==
    IF writers[w].pc = "failed" THEN {}
    ELSE { k \in DOMAIN writers[w].ids : writers[w].ids[k] \in Ids(reader.results) }

\* flag rows without their keys
ColumnsOf(frows) == [j \in 1..Len(frows) |-> FlagColumns(frows[j])]

\* the flag rows save_results writes for one result stored under result_id
FlagsDue(result_id, result) == ColumnsOf(AddFlags(<<>>, result_id, result))

RECURSIVE BatchTotal(_)
BatchTotal(n) == IF n = 0 THEN 0 ELSE BatchTotal(n - 1) + Len(writers[n].batch)

\* C29: a fetch_run_details or list_runs call concurrent with save_results
\* calls on the same run has loaded, of each call, none or all of its result
\* records, and with every record loaded all the flag records of that record;
\* when the concurrent save_results calls have all committed, the tables hold
\* exactly the records of their batches, each under a key of its own and with
\* the flags of its own result.
C29_ConcurrentSavesAndReads ==
    /\ reader.pc = "done" =>
          /\ \A w \in Writers :
                /\ Cardinality(SeenOf(w)) \in {0, Len(writers[w].batch)}
                /\ \A k \in SeenOf(w) :
                      ColumnsOf(SelectSeq(reader.flags,
                                          LAMBDA f : f.result_id = writers[w].ids[k]))
                         = FlagsDue(writers[w].ids[k], writers[w].batch[k])
          /\ \A r \in DOMAIN reader.results :
                SelectSeq(reader.flags, LAMBDA f : f.result_id = reader.results[r].id)
                   = SelectSeq(flag_rows, LAMBDA f : f.result_id = reader.results[r].id)
    /\ (\A w \in Writers : writers[w].pc = "done") =>
          /\ Len(result_rows) = BatchTotal(MaxWriters)
          /\ Cardinality(Ids(result_rows)) = Len(result_rows)
          /\ \A w \in Writers : \A k \in DOMAIN writers[w].batch :
                LET id == writers[w].ids[k]
                    at == Find(result_rows, id)
                IN /\ at > 0
                   /\ result_rows[at]
                         = [id |-> id] @@ RecordFor(writers[w].run_id, writers[w].batch[k])
                   /\ FlagsOfRecord(id) = FlagsDue(id, writers[w].batch[k])
          /\ Cardinality(Ids(flag_rows)) = Len(flag_rows)

\* both calls committed batches of two results whose flushes interleaved, and
\* a read that ran between the two commits loaded the two records of one call
C29_Witness ==
    /\ \A w \in Writers : writers[w].pc = "done" /\ Len(writers[w].batch) = 2
    /\ \E w \in Writers : writers[w].ids[2] > writers[w].ids[1] + 1
    /\ reader.pc = "done"
    /\ Len(reader.results) = 2
    /\ reader.flags # <<>>
    /\ Len(result_rows) = 2 * MaxWriters

\* the payloads classify_input returned for the prompts processed so far
InputPayloads == [k \in DOMAIN results |-> results[k].input_classification.raw_response]

\* C30: given the prompts process_prompts has processed and the payloads its
\* input classifier returned for them, moderate_prompts yields one
\* ModerationResult per prompt, in input order, for the same prompt and with
\* the flagged, flags and raw_response of the input_classification
\* process_prompts computed, whichever of the two methods the provider has.
C30_LegacyAgreesWithPipeline ==
    \A provider \in Providers \ {"neither"} :
        LET legacy == moderate_prompts(provider, SubSeq(prompts, 1, Len(results)),
                                       InputPayloads)
        IN /\ ~legacy.raised
           /\ Len(legacy.results) = Len(results)
           /\ \A k \in DOMAIN results :
                 /\ legacy.results[k].prompt = results[k].prompt
                 /\ legacy.results[k].flagged = results[k].input_classification.flagged
                 /\ legacy.results[k].flags = results[k].input_classification.flags
                 /\ legacy.results[k].raw_response
                       = results[k].input_classification.raw_response

\* two prompts were processed: one got a payload without a result element,
\* the other one a payload whose flagged key and categories disagree
C30_Witness ==
    /\ pc = "returned"
    /\ Len(results) = 2
    /\ NoElement(results[1].input_classification.raw_response)
    /\ results[2].input_classification.flagged
    /\ ~SomeCategoryTrue(results[2].input_classification.raw_response)
    /\ results[2].input_classification.flags # <<>>

\* the stored row of element k of the batch save_results committed last
RowOfLast(k) == result_rows[Len(result_rows) - Len(last.batch) + k]

\* the keys of a serialized result the legacy readers use
LegacyKeys(view) ==
    [flagged |-> view.flagged, raw_response |-> view.raw_response, flags |-> view.flags,
     input_flagged |-> view.input_flagged, input_flags |-> view.input_flags]

\* C31: after a committed save_results, for every PipelineResult p of the batch
\* the properties flagged, flags and raw_response of p are the fields of
\* p.input_classification and are what the view of p's record shows under the
\* keys flagged, flags and raw_response; and the record of every element of
\* the batch equal to from_pipeline_result(p) has a view with the same flagged,
\* raw_response, flags, input_flagged and input_flags as the view of p's record.
C31_LegacyConversionKeepsView ==
    SaveCommitted(last) =>
        \A i \in DOMAIN last.batch :
            last.batch[i].kind = "PipelineResult" =>
                LET p == last.batch[i]
                    view == _serialize_result(RowOfLast(i), flag_rows)
                IN /\ LegacyProperties(p).flagged = p.input_classification.flagged
                   /\ LegacyProperties(p).flags = p.input_classification.flags
                   /\ LegacyProperties(p).raw_response = p.input_classification.raw_response
                   /\ view.flagged = LegacyProperties(p).flagged
                   /\ view.raw_response = LegacyProperties(p).raw_response
                   /\ view.flags = LegacyProperties(p).flags
                   /\ \A j \in DOMAIN last.batch :
                         last.batch[j] = from_pipeline_result(p) =>
                            LegacyKeys(_serialize_result(RowOfLast(j), flag_rows))
                               = LegacyKeys(view)

\* a batch of a result whose output stage alone is flagged and its conversion
C31_Witness ==
    /\ SaveCommitted(last)
    /\ Len(last.batch) = 2
    /\ last.batch[1].kind = "PipelineResult"
    /\ ~last.batch[1].input_classification.flagged
    /\ IsSome(last.batch[1].output_classification)
    /\ Get(last.batch[1].output_classification).flagged
    /\ last.batch[1].input_classification.flags # <<>>
    /\ last.batch[2] = from_pipeline_result(last.batch[1])
    /\ _serialize_result(RowOfLast(1), flag_rows).output_flags # <<>>

\* the invocations of the batch CLIs so far, the current one last
Invocations ==
    Append(cli.ended,
           [run_id |-> cli.run_id, outcome |-> cli.pc,
            processed |-> IF IsNone(cli.pending) THEN None
                          ELSE Some(Len(Get(cli.pending)))])

\* C32: whenever a run started by an invocation of a batch CLI has status
\* completed, that invocation has processed its prompts and the number of
\* result records stored for the run is the number of results it processed.
C32_CompletedOnlyAfterSave ==
    \A r \in DOMAIN runs :
        runs[r].status = "completed" =>
            \E i \in DOMAIN Invocations :
                /\ Invocations[i].run_id = runs[r].id
                /\ IsSome(Invocations[i].processed)
                /\ Cardinality(ResultsOfRun(runs[r].id, result_rows))
                      = Get(Invocations[i].processed)

\* a second invocation has completed its run after saving two results, the
\* first one having crashed
C32_Witness ==
    /\ cli.pc = "done"
    /\ cli.database
    /\ Len(runs) = 2
    /\ runs[2].status = "completed"
    /\ runs[1].status = "running"
    /\ Cardinality(ResultsOfRun(2, result_rows)) = 2

\* C33: when an invocation of a batch CLI with a database has ended by an
\* exception of process_prompts / moderate_prompts or of save_results, the run
\* it started has status failed.
C33_CrashedRunIsFailed ==
    \A i \in DOMAIN Invocations :
        (Invocations[i].outcome = "crashed" /\ Invocations[i].run_id # 0) =>
            \E r \in DOMAIN runs :
                runs[r].id = Invocations[i].run_id /\ runs[r].status = "failed"

\* C34: when reading the next prompt has raised EOFError, the session has
\* left its prompt loop and ended, and complete_run was called for its run;
\* and when the session has ended (exit, quit, q or Ctrl+C) its run is no
\* longer running.
C34_EndOfInputEndsSession ==
    /\ (last.op = "input" /\ last.raised) =>
          /\ session.pc = "done"
          /\ \E r \in DOMAIN runs :
                runs[r].id = session.run_id /\ IsSome(runs[r].completed_at)
    /\ session.pc = "done" =>
          \E r \in DOMAIN runs :
              runs[r].id = session.run_id /\ IsSome(runs[r].completed_at)

\* C38: whenever the interactive session is back at its prompt, after any
\* number of prompt iterations of which some raised, the prompt_limit stored
\* for its run is the number of result records stored for that run.
C38_PromptLimitCountsRecords ==
    session.pc = "prompt" =>
        \A r \in DOMAIN runs :
            runs[r].id = session.run_id =>
                runs[r].prompt_limit
                   = Cardinality(ResultsOfRun(session.run_id, result_rows))

\* C35: no exception reaches the code that logged a record, and every row of
\* moderation_logs is a whole row: a failure of format or persist_log writes
\* none.
C35_EmitNeverRaises ==
    /\ handling.pc # "raised"
    /\ \A k \in DOMAIN log_rows :
          /\ log_rows[k].level \in LogLevels \cup {"ERROR"}
          /\ log_rows[k].message # ""
          /\ log_rows[k].run_id = 1

\* C36: while one log record is handled, the emit calls nested through the
\* failure report stay below what the stack has room for, however often
\* persist_log fails.
C36_FailureReportDoesNotReenter ==
    handling.depth < MaxEmitDepth

\* process_prompts([prompt])[0] as the interactive session calls it, with
\* capabilities that answer the prompt with the given responses
ProcessAlone(prompt, input_raw, answer_raw, output_raw) ==
    LET input_cls == _build_classification_result(input_raw)
        ans == IF answer_generator /\ ~input_cls.flagged
               THEN Some(BuildAnswer(answer_raw)) ELSE None
        output_cls == IF output_classifier /\ ObjTruthy(ans)
                      THEN Some(_build_classification_result(output_raw)) ELSE None
    IN PipelineResult(prompt, input_cls, ans, output_cls)

\* C37: every result of a batch is the result process_prompts gives for its
\* prompt alone when the capabilities respond to it as they did in the batch,
\* whatever the responses of the capabilities that were not called for it:
\* nothing of the other prompts of the batch, of their results or of their
\* order enters it.
C37_ResultDependsOnOwnPromptOnly ==
    \A k \in DOMAIN results :
        \A answer_raw \in (IF IsSome(results[k].answer)
                           THEN {Get(results[k].answer).raw_response}
                           ELSE AnswerPayloads),
           output_raw \in (IF IsSome(results[k].output_classification)
                           THEN {Get(results[k].output_classification).raw_response}
                           ELSE OutputPayloads) :
            results[k] = ProcessAlone(prompts[k],
                                      results[k].input_classification.raw_response,
                                      answer_raw, output_raw)

\* a batch of two different prompts: the first was flagged and got no answer,
\* the second was answered after it and its answer classified
C37_Witness ==
    /\ pc = "returned"
    /\ Len(results) = 2
    /\ prompts[1] # prompts[2]
    /\ results[1].input_classification.flagged
    /\ IsNone(results[1].answer)
    /\ IsSome(results[2].answer)
    /\ IsSome(results[2].output_classification)

\* the results of a run that are flagged at a stage and have no human label
AwaitingReview(run_id) ==
    { k \in ResultsOfRun(run_id, result_rows) :
        /\ result_rows[k].input_flagged \/ BoolTruthy(result_rows[k].output_flagged)
        /\ ~LabelTruthy(result_rows[k].human_label) }

\* C39: on the run-detail page of every stored run, pending_reviews is the
\* number of the run's results that are flagged, at the input or the output
\* stage, and have no human label; it is never negative.
C39_PendingReviewsCountsUnreviewedFlagged ==
    \A r \in DOMAIN runs :
        LET page == run_detail(runs[r].id, runs, result_rows, flag_rows)
        IN /\ page.status = 200
           /\ page.pending_reviews = Cardinality(AwaitingReview(runs[r].id))
           /\ page.pending_reviews >= 0

TypeOK ==
    /\ pc \in {"loop", "stage2", "stage3", "append", "returned", "raised"}
    /\ idx \in 1..(MaxPrompts + 2)
    /\ Len(results) <= Len(prompts)
    /\ clock \in 0..MaxClock
    /\ session.pc \in {"start", "prompt", "save", "limit", "eof", "done"}
    /\ session.prompt_count \in 0..MaxSessionPrompts
    /\ Len(result_rows) <= MaxStored
====
